---- MODULE Spec2Model ----
(***************************************************************************)
(* A model of OpenMolt's python-bot-v2: the tool registry and the agentic  *)
(* loop (openresponses/agent.py), the item helpers (openresponses/types.py)*)
(* the provider adapters (openresponses/adapters.py) and the core memory   *)
(* blocks (memory.py).                                                     *)
(*                                                                         *)
(* Python values are modelled as records with a tag: a str, an int (a      *)
(* JSON-serialisable non-string) or a set (not JSON-serialisable).  Text   *)
(* that the code slices into characters (memory blocks) is a sequence of   *)
(* one-character strings; text that it only passes around is a string.     *)
(***************************************************************************)
EXTENDS Integers, Sequences, FiniteSets, TLC

VARIABLES
    tools,            \* ToolRegistry.tools: the list of FunctionTool (by name)
    handlers,         \* ToolRegistry.handlers: name -> handler
    system_prompt,    \* Agent.system_prompt
    max_iterations,   \* Agent.max_iterations
    on_iteration,     \* Agent.on_iteration: "none" (not set), "ok", "raises"
    on_tool_call,     \* Agent.on_tool_call
    on_response,      \* Agent.on_response
    pc,               \* where Agent.think is
    items,            \* think's local context list
    iteration,        \* think's loop variable
    pending,          \* function calls of the current response still to run
    args,             \* think's local `args` (unbound until json.loads succeeds)
    thinking_trace,   \* think's local thinking_trace
    result,           \* what think returned, or the exception it raised
    sent,             \* the context handed to the client at the last model call
    responses,        \* the outputs the client returned, in order
    executed,         \* the handler invocations, in order
    iterLog,          \* what on_iteration was invoked with
    toolLog,          \* what on_tool_call was invoked with
    respLog,          \* what on_response was invoked with
    adapter,          \* which adapter the client holds: "ollama", "openrouter"
    request_input,    \* CreateResponseRequest.input: the items to send
    reply,            \* what the provider answers to the HTTP call
    payload,          \* the translated input the adapter sends
    adResponse,       \* what create_response returned or raised
    adPc,             \* "ready", "returned", "streamed" or "raised"
    posts,            \* how many times the adapter called requests.post
    events,           \* what create_response_stream has yielded
    blocks,           \* AgentMemory.data["blocks"]: label -> [value, limit]
    disk,             \* the blocks last written by AgentMemory.save
    memResult,        \* what the last memory-block call returned
    archival,         \* AgentMemory.data["archival"]: the entries, newest first
    stats,            \* AgentMemory.data["stats"]: memories_written, memories_read
    archResult,       \* what the last remember or recall returned
    embedder,         \* "none" or "client": AgentMemory.embedder
    buffer,           \* AgentMemory.data["buffer"]: the entries, oldest first
    added,            \* the entries passed to add_to_buffer, in order
    dream_lock,       \* main.dream_lock: TRUE while held
    dream_actions_since, \* state.data["dream_actions_since"]
    hbPc,             \* where the heartbeat loop of main() is
    worker,           \* the _run_dream threads: slot -> pc, outcome and locals
    reflections,      \* AgentMemory.data["reflections"]: newest first
    mbPc,             \* where moltbook._get or _post is: "ready", "loop", "done"
    mbMethod,         \* "GET" for _get, "POST" for _post
    attempt,          \* the loop variable of _get and _post
    mbLog,            \* what each HTTP attempt of the call received, in order
    slept,            \* the arguments of the time.sleep calls, in order
    mbResult,         \* what _get or _post returned, or the exception raised
    since_post,       \* time.time() - last_post_at, None while it is unset
    since_comment,    \* time.time() - last_comment_at, None while it is unset
    since_dm,         \* time.time() - the newest dm_auto_replied timestamp
    our_post_ids,     \* BotState.data["our_post_ids"]: oldest first
    recorded,         \* every post id mark_post was called with
    lastCall          \* the last tool handler call and what it did

agentVars == <<system_prompt, max_iterations, on_iteration, on_tool_call,
               on_response, pc, items, iteration, pending, args,
               thinking_trace, result, sent, responses, executed, iterLog,
               toolLog, respLog>>
registryVars == <<tools, handlers>>
adapterVars == <<adapter, request_input, reply, payload, adResponse, adPc,
                 posts, events>>
memoryVars == <<blocks, disk, memResult, archival, stats, archResult, embedder,
                buffer, added>>
dreamVars == <<dream_lock, dream_actions_since, hbPc, worker, reflections>>
memoryRest == <<blocks, disk, memResult, archival, stats, archResult, embedder,
                added>>
moltbookVars == <<mbPc, mbMethod, attempt, mbLog, slept, mbResult>>
stateVars == <<since_post, since_comment, since_dm, our_post_ids, recorded,
               lastCall>>
botVars == <<moltbookVars, stateVars>>
vars == <<registryVars, agentVars, adapterVars, memoryVars, dreamVars,
          botVars>>

(***************************************************************************)
(* Bounds of the model.                                                    *)
(***************************************************************************)
MaxIter == 2            \* max_iterations ranges over 0..MaxIter
MaxToolCalls == 2       \* function calls the stub provider emits in one think
MaxRegistrations == 3   \* register calls on one registry
MaxReplyItems == 2      \* stream lines or output items in one provider reply
MaxLen == 2             \* characters in a string passed to a memory-block call
MaxStore == 2           \* entries the archival store holds (MAX_ARCHIVAL)
MaxCalls == 4           \* remember and recall calls on one store
MaxAdds == 5            \* add_to_buffer calls between two clear_buffer calls
MaxWorkers == 2         \* thread slots for _run_dream
MaxActions == 6         \* cap of the dream_actions_since counter

None == "<None>"

DefaultMaxIterations == 10

(***************************************************************************)
(* Python values.                                                          *)
(***************************************************************************)
StrV(s) == [t |-> "str", s |-> s, n |-> 0]
IntV(n) == [t |-> "int", s |-> "", n |-> n]
SetV == [t |-> "set", s |-> "", n |-> 0]

Digits == <<"0", "1", "2", "3", "4", "5", "6", "7", "8", "9">>
IntToText(n) == IF n \in 0..9 THEN Digits[n + 1] ELSE "int"

Returned(v) == [raised |-> FALSE, value |-> v, err |-> ""]
Raised(e) == [raised |-> TRUE, value |-> StrV(""), err |-> e]

\* json.dumps(v, default=str): a non-serialisable value is encoded as str(v).
json_dumps_default_str(v) ==
    CASE v.t = "str" -> Returned(StrV("\"" \o v.s \o "\""))
      [] v.t = "int" -> Returned(StrV(IntToText(v.n)))
      [] OTHER -> Returned(StrV("\"set()\""))

\* json.dumps(v): a non-serialisable value raises TypeError.
json_dumps(v) ==
    CASE v.t = "str" -> Returned(StrV("\"" \o v.s \o "\""))
      [] v.t = "int" -> Returned(StrV(IntToText(v.n)))
      [] OTHER -> Raised("TypeError: Object of type set is not JSON serializable")

\* Parsed JSON arguments: a dict with optional integer entries a and b.
Absent == 0 - 1
Dict(a, b) == [t |-> "dict", a |-> a, b |-> b]
Unbound == [t |-> "unbound", a |-> Absent, b |-> Absent]

ArgsAdd == "{\"a\":2,\"b\":2}"
ArgsEmpty == "{}"
ArgsBad == "{bad"

\* json.loads on the argument strings the stub provider emits.
json_loads(s) ==
    CASE s = ArgsAdd -> [raised |-> FALSE, value |-> Dict(2, 2), err |-> ""]
      [] s = ArgsEmpty -> [raised |-> FALSE, value |-> Dict(Absent, Absent), err |-> ""]
      [] OTHER -> [raised |-> TRUE, value |-> Unbound,
                   err |-> "Expecting property name enclosed in double quotes"]

(***************************************************************************)
(* Items (openresponses/types.py).  Every item carries every field, None   *)
(* or <<>> where the Python object has none.                               *)
(***************************************************************************)
InputTextContent(text) == [type |-> "input_text", text |-> text]
OutputTextContent(text) == [type |-> "output_text", text |-> text]

MessageItem(role, content) ==
    [type |-> "message", id |-> None, role |-> role, content |-> content,
     name |-> None, arguments |-> None, call_id |-> None, output |-> <<>>]

FunctionCallItem(id, call_id, name, arguments) ==
    [type |-> "function_call", id |-> id, role |-> None, content |-> <<>>,
     name |-> name, arguments |-> arguments, call_id |-> call_id,
     output |-> <<>>]

FunctionCallOutputItem(call_id, output) ==
    [type |-> "function_call_output", id |-> None, role |-> None,
     content |-> <<>>, name |-> None, arguments |-> None,
     call_id |-> call_id, output |-> output]

user_message(text) == MessageItem("user", <<InputTextContent(text)>>)
system_message(text) == MessageItem("system", <<InputTextContent(text)>>)
assistant_message(text) == MessageItem("assistant", <<OutputTextContent(text)>>)

\* function_output that labels every output with one fixed call_id.
function_output_fixed_id(call_id, res) ==
    LET dumped == IF res.t = "str" THEN Returned(res) ELSE json_dumps(res)
    IN  [raised |-> dumped.raised, err |-> dumped.err,
         item |-> FunctionCallOutputItem("call_0",
                      <<InputTextContent(dumped.value.s)>>)]

\* function_output(call_id, result): json.dumps without default=str, so a
\* result that is not JSON-serialisable raises TypeError.
function_output(call_id, res) ==
    LET dumped == IF res.t = "str" THEN Returned(res) ELSE json_dumps(res)
    IN  [raised |-> dumped.raised, err |-> dumped.err,
         item |-> FunctionCallOutputItem(call_id,
                      <<InputTextContent(dumped.value.s)>>)]

RECURSIVE FirstOutputText(_)
FirstOutputText(content) ==
    IF content = <<>> THEN None
    ELSE IF Head(content).type = "output_text" THEN Head(content).text
    ELSE FirstOutputText(Tail(content))

\* ResponseResource.get_text: the first output_text part of the first message
\* that has one, else None.
RECURSIVE get_text(_)
get_text(output) ==
    IF output = <<>> THEN None
    ELSE IF Head(output).type = "message"
            /\ FirstOutputText(Head(output).content) # None
         THEN FirstOutputText(Head(output).content)
         ELSE get_text(Tail(output))

IsFunctionCall(item) == item.type = "function_call"

\* ResponseResource.get_function_calls: the function_call items, in order.
get_function_calls(output) == SelectSeq(output, IsFunctionCall)

(***************************************************************************)
(* ToolRegistry (openresponses/agent.py).                                  *)
(***************************************************************************)
FunctionTool(name, description) ==
    [type |-> "function", name |-> name, description |-> description,
     strict |-> FALSE]

\* ToolRegistry.register on a registry value: append the tool, bind the name.
register(reg, name, description, handler) ==
    [tools |-> Append(reg.tools, FunctionTool(name, description)),
     handlers |-> (name :> handler) @@ reg.handlers]

EmptyRegistry == [tools |-> <<>>, handlers |-> [x \in {} |-> ""]]

\* The handlers the model binds: what a handler does with its keyword
\* arguments.
HandlerCall(h, a) ==
    CASE h = "h_add" ->
           IF a.a # Absent /\ a.b # Absent THEN Returned(IntV(a.a + a.b))
           ELSE Raised("add() missing required positional arguments")
      [] h = "h_echo" -> Returned(StrV("ok"))
      [] h = "h_mkset" -> Returned(SetV)
      [] OTHER -> Raised("boom")

\* ToolRegistry.execute.
execute(hs, name, a) ==
    IF name \notin DOMAIN hs THEN Raised("Unknown tool: " \o name)
    ELSE HandlerCall(hs[name], a)

\* The registry of the agent under test: four tools, registered in order.
AgentRegistry ==
    register(register(register(register(EmptyRegistry,
        "add", "add two numbers", "h_add"),
        "echo", "say ok", "h_echo"),
        "boom", "always fails", "h_boom"),
        "mkset", "returns a set", "h_mkset")

(***************************************************************************)
(* The stub client: what a provider may answer to one model call.          *)
(***************************************************************************)
CallIds == {"call_1", "call_2"}

\* (name, arguments) of the calls the stub emits: a tool returning an int, the
\* same tool with unparseable arguments, a tool returning a str, a tool that
\* raises, a tool returning a set, and a tool that is not registered.
CallShapes ==
    {<<"add", ArgsAdd>>, <<"add", ArgsBad>>, <<"echo", ArgsEmpty>>,
     <<"boom", ArgsEmpty>>, <<"mkset", ArgsEmpty>>, <<"nosuch", ArgsEmpty>>}

ProviderCalls ==
    {FunctionCallItem("fc_gen", "call_1", sh[1], sh[2]) : sh \in CallShapes}
    \cup {FunctionCallItem("fc_gen", "call_2", "echo", ArgsEmpty)}

SeqsUpTo(S, n) == UNION {[1..k -> S] : k \in 1..n}

\* Outputs with at least one function_call: up to n calls, or an assistant
\* message followed by a call.
CallOutputs(n) ==
    SeqsUpTo(ProviderCalls, n)
    \cup {<<assistant_message("let me check"),
            FunctionCallItem("fc_gen", "call_2", "add", ArgsAdd)>>}

\* Outputs without a function_call: nothing, a message with text, a message
\* with no output_text part, a message with empty text.
FinalOutputs ==
    {<<>>, <<assistant_message("4")>>, <<MessageItem("assistant", <<>>)>>,
     <<assistant_message("")>>}

ProviderOutputs(n) == (IF n > 0 THEN CallOutputs(n) ELSE {}) \cup FinalOutputs

RECURSIVE CountCalls(_)
CountCalls(outs) ==
    IF outs = <<>> THEN 0
    ELSE Len(get_function_calls(Head(outs))) + CountCalls(Tail(outs))

(***************************************************************************)
(* Agent.think (openresponses/agent.py).                                   *)
(***************************************************************************)
UserInput == "What's 2+2?"
MaxIterationsText == "Agent reached maximum iterations without completing."
MaxIterationsCallbackText == "Agent reached maximum iterations."

\* Prior context items a caller may pass.
Contexts == {<<>>, <<user_message("earlier")>>}

RECURSIVE JoinLines(_)
JoinLines(lines) ==
    IF lines = <<>> THEN ""
    ELSE IF Len(lines) = 1 THEN lines[1]
    ELSE lines[1] \o "\n" \o JoinLines(Tail(lines))

\* `return final_text` without the `or ""`.
OrEmpty_keeps_none(text) == text

OrEmpty(text) == IF text = None THEN "" ELSE text

\* A best-effort callback: invoked when set, its own failure swallowed.
Notify(cb, log, entry) == IF cb = "none" THEN log ELSE Append(log, entry)

CallbackError == "callback raised"

\* `if self.on_x: self.on_x(...)` without the try around it.
Guarded_unguarded(cb, readable) ==
    IF cb = "none" THEN "skipped"
    ELSE IF ~readable \/ cb = "raises" THEN "propagated"
    ELSE "returned"

\* `if self.on_x: try: self.on_x(...) except Exception: log`: how the guarded
\* invocation ends.  readable is FALSE when evaluating the arguments raises
\* (an unbound local) before the callback is entered.
Guarded(cb, readable) ==
    IF cb = "none" THEN "skipped"
    ELSE IF ~readable \/ cb = "raises" THEN "swallowed"
    ELSE "returned"

\* Lines 160-175 for one function call: parse, execute, serialise; any
\* exception becomes an error text.  argsIn is the local `args` before.
ToolStep(hs, fc, argsIn) ==
    LET parsed == json_loads(fc.arguments)
        ex == execute(hs, fc.name, parsed.value)
        failed == parsed.raised \/ ex.raised
        err == IF parsed.raised THEN parsed.err ELSE ex.err
        res == IF failed THEN StrV("Error: " \o err) ELSE ex.value
    IN  [args |-> IF parsed.raised THEN argsIn ELSE parsed.value,
         invoked |-> ~parsed.raised /\ fc.name \in DOMAIN hs,
         result |-> res,
         result_str |-> IF res.t = "str" THEN res.s
                        ELSE json_dumps_default_str(res).value.s]

\* Lines 112-121: build the initial context.
Think ==
    /\ pc = "idle"
    /\ \E context \in Contexts :
         items' = (IF system_prompt # "" THEN <<system_message(system_prompt)>>
                   ELSE <<>>) \o context \o <<user_message(UserInput)>>
    /\ iteration' = 0
    /\ thinking_trace' = <<>>
    /\ pc' = "loop"
    /\ UNCHANGED <<botVars, registryVars, adapterVars, memoryVars, dreamVars, system_prompt, max_iterations, on_iteration,
                   on_tool_call, on_response, pending, args, result, sent,
                   responses, executed, iterLog, toolLog, respLog>>

\* Lines 123-156: one iteration up to the model's answer; a response without
\* function calls ends think with its text.  cbI and cbR are on_iteration and
\* on_response; the callback logs are set by ModelCallLogs.
ModelCallOutcome(cbI, cbR) ==
    /\ pc = "loop"
    /\ iteration < max_iterations
    /\ IF Guarded(cbI, TRUE) = "propagated"
       THEN /\ result' = CallbackError
            /\ pc' = "raised"
            /\ UNCHANGED <<sent, responses, pending>>
       ELSE \E output \in ProviderOutputs(MaxToolCalls - CountCalls(responses)) :
              /\ sent' = items
              /\ responses' = Append(responses, output)
              /\ IF get_function_calls(output) = <<>>
                 THEN /\ IF Guarded(cbR, TRUE) = "propagated"
                         THEN result' = CallbackError /\ pc' = "raised"
                         ELSE /\ result' = OrEmpty(get_text(output))
                              /\ pc' = "done"
                      /\ UNCHANGED pending
                 ELSE /\ pending' = get_function_calls(output)
                      /\ pc' = "exec"
                      /\ UNCHANGED result
    /\ UNCHANGED <<botVars, registryVars, adapterVars, memoryVars, dreamVars, system_prompt, max_iterations, on_iteration,
                   on_tool_call, on_response, items, iteration, args,
                   thinking_trace, executed, toolLog>>

ModelCallLogs ==
    /\ iterLog' = Notify(on_iteration, iterLog, iteration + 1)
    /\ respLog' =
         IF /\ Len(responses') > Len(responses)
            /\ get_function_calls(responses'[Len(responses')]) = <<>>
         THEN Notify(on_response, respLog,
                     <<JoinLines(thinking_trace),
                       OrEmpty(get_text(responses'[Len(responses')]))>>)
         ELSE respLog

ModelCall == ModelCallOutcome(on_iteration, on_response) /\ ModelCallLogs

\* Lines 159-186: run the next function call of the response and append the
\* call and its output; after the last one, the loop goes round.  cbT is
\* on_tool_call; the callback log is set by ExecuteToolLogs.
ExecuteToolOutcome(cbT) ==
    /\ pc = "exec"
    /\ pending # <<>>
    /\ LET fc == Head(pending)
           step == ToolStep(handlers, fc, args)
           out == function_output(fc.call_id, step.result)
       IN  /\ thinking_trace' = Append(thinking_trace, "[Tool: " \o fc.name \o "]")
           /\ args' = step.args
           /\ executed' = IF step.invoked
                          THEN Append(executed, [call_id |-> fc.call_id,
                                                 name |-> fc.name,
                                                 args |-> step.args])
                          ELSE executed
           /\ IF Guarded(cbT, step.args # Unbound) = "propagated"
              THEN /\ result' = CallbackError
                   /\ pc' = "raised"
                   /\ UNCHANGED <<items, pending, iteration>>
              ELSE IF out.raised
              THEN /\ items' = Append(items, fc)
                   /\ result' = out.err
                   /\ pc' = "raised"
                   /\ UNCHANGED <<pending, iteration>>
              ELSE /\ items' = items \o <<fc, out.item>>
                   /\ pending' = Tail(pending)
                   /\ IF Tail(pending) = <<>>
                      THEN iteration' = iteration + 1 /\ pc' = "loop"
                      ELSE UNCHANGED <<iteration, pc>>
                   /\ UNCHANGED result
    /\ UNCHANGED <<botVars, registryVars, adapterVars, memoryVars, dreamVars, system_prompt, max_iterations, on_iteration,
                   on_tool_call, on_response, sent, responses, iterLog,
                   respLog>>

\* on_tool_call(func_name, args, result_str): reading an unbound `args` raises
\* inside the try, before the callback is entered.
ExecuteToolLogs ==
    LET fc == Head(pending)
        step == ToolStep(handlers, fc, args)
    IN  toolLog' = IF step.args = Unbound THEN toolLog
                   ELSE Notify(on_tool_call, toolLog,
                               [name |-> fc.name, args |-> step.args,
                                result_str |-> step.result_str])

ExecuteTool == ExecuteToolOutcome(on_tool_call) /\ ExecuteToolLogs

\* Lines 190-199: the iteration bound is reached.
MaxIterationsOutcome(cbR) ==
    /\ pc = "loop"
    /\ iteration >= max_iterations
    /\ IF Guarded(cbR, TRUE) = "propagated"
       THEN result' = CallbackError /\ pc' = "raised"
       ELSE result' = MaxIterationsText /\ pc' = "done"
    /\ UNCHANGED <<botVars, registryVars, adapterVars, memoryVars, dreamVars, system_prompt, max_iterations, on_iteration,
                   on_tool_call, on_response, items, iteration, pending, args,
                   thinking_trace, sent, responses, executed, iterLog, toolLog>>

MaxIterationsReached ==
    /\ MaxIterationsOutcome(on_response)
    /\ respLog' = Notify(on_response, respLog,
                         <<JoinLines(thinking_trace), MaxIterationsCallbackText>>)

\* The count of a clear_buffer call that was not made.
NotCleared == 0 - 1

\* The heartbeat loop not started, no dream thread, the lock free.
DreamIdle ==
    /\ dream_lock = FALSE
    /\ dream_actions_since = 0
    /\ hbPc = "think"
    /\ worker = [w \in 1..MaxWorkers |->
                    [pc |-> "idle", outcome |-> "none", seen |-> <<>>,
                     appended |-> FALSE, response |-> None, called |-> FALSE,
                     saved |-> FALSE, cleared |-> NotCleared]]
    /\ reflections = <<>>

\* A result of _get or _post without a retry_after key.
NoRetryAfter == 0 - 1

\* A timestamp of BotState that is None.
Never == 0 - 1

NoMbResult ==
    [kind |-> "none", error |-> None, retry_after |-> NoRetryAfter,
     body |-> None]

\* No moltbook call in progress.
MoltbookIdle ==
    /\ mbPc = "ready"
    /\ mbMethod = "GET"
    /\ attempt = 0
    /\ mbLog = <<>>
    /\ slept = <<>>
    /\ mbResult = NoMbResult

\* A tool handler call: the tool, the post it was aimed at (NoPost when it
\* has none), whether it reached the Moltbook API, the error it returned
\* without reaching it, and the time since the tool's last recorded use when
\* it was called.
NoPost == 0 - 1

ToolCallRecord(tool, target, api, error, elapsed) ==
    [tool |-> tool, target |-> target, api |-> api, error |-> error,
     elapsed |-> elapsed]

NoCall == ToolCallRecord("none", NoPost, FALSE, None, Never)

\* BotState._default_state, and no tool handler called yet.
StateIdle ==
    /\ since_post = Never
    /\ since_comment = Never
    /\ since_dm = Never
    /\ our_post_ids = <<>>
    /\ recorded = {}
    /\ lastCall = NoCall

BotIdle == MoltbookIdle /\ StateIdle

\* No adapter call in progress.
AdapterIdle ==
    /\ adapter = "ollama"
    /\ request_input = <<>>
    /\ reply = [status |-> 200, transport |-> "ok", retry_after |-> NoRetryAfter,
                lines |-> <<>>, output |-> <<>>,
                choices |-> [role |-> None, content |-> None,
                             tool_calls |-> <<>>, tool_call_id |-> None]]
    /\ payload = <<>>
    /\ adResponse = [kind |-> "none", output |-> <<>>, err |-> "",
                     retry_after |-> NoRetryAfter]
    /\ adPc = "ready"
    /\ posts = 0
    /\ events = <<>>

\* The memory blocks of AgentMemory._default, scaled to the model's limits.
PersonaLimit == MaxLen + 1
HumanLimit == MaxLen - 1

DefaultBlocks ==
    [persona |-> [value |-> <<"a">>, limit |-> PersonaLimit],
     human |-> [value |-> <<>>, limit |-> HumanLimit]]

NoResult ==
    [status |-> "none", op |-> "none", reason |-> "", label |-> "", length |-> 0]

MemoryIdle ==
    /\ blocks = DefaultBlocks
    /\ disk = DefaultBlocks
    /\ memResult = NoResult
    /\ archival = <<>>
    /\ stats = [memories_written |-> 0, memories_read |-> 0]
    /\ archResult = [op |-> "none", success |-> FALSE, memory_id |-> None,
                     method |-> None, found |-> <<>>, scores |-> <<>>]
    /\ embedder = "none"
    /\ buffer = <<>>
    /\ added = <<>>

\* The agents the model constructs: no callbacks, callbacks that return, and
\* callbacks that raise.
Scenarios ==
    {[system_prompt |-> "", cb |-> "none"],
     [system_prompt |-> "You are Riko.", cb |-> "ok"],
     [system_prompt |-> "You are Riko.", cb |-> "raises"]}

\* Agent.__init__ with the registry filled, before think is called.
Init ==
    /\ DreamIdle
    /\ BotIdle
    /\ tools = AgentRegistry.tools
    /\ handlers = AgentRegistry.handlers
    /\ \E sc \in Scenarios :
         /\ system_prompt = sc.system_prompt
         /\ on_iteration = sc.cb
         /\ on_tool_call = sc.cb
         /\ on_response = sc.cb
    /\ max_iterations \in 0..MaxIter
    /\ pc = "idle"
    /\ items = <<>>
    /\ iteration = 0
    /\ pending = <<>>
    /\ args = Unbound
    /\ thinking_trace = <<>>
    /\ result = None
    /\ sent = <<>>
    /\ responses = <<>>
    /\ executed = <<>>
    /\ iterLog = <<>>
    /\ toolLog = <<>>
    /\ respLog = <<>>
    /\ AdapterIdle
    /\ MemoryIdle

Next == Think \/ ModelCall \/ ExecuteTool \/ MaxIterationsReached

Spec == Init /\ [][Next]_vars

(***************************************************************************)
(* Properties of Agent.think, checked under Spec.                          *)
(***************************************************************************)
Finished == pc \in {"done", "raised"}

AllResponsesCall ==
    \A i \in 1..Len(responses) : get_function_calls(responses[i]) # <<>>

LastResponseIsFinal ==
    /\ responses # <<>>
    /\ get_function_calls(responses[Len(responses)]) = <<>>

RECURSIVE RequestedCalls(_)
RequestedCalls(outs) ==
    IF outs = <<>> THEN <<>>
    ELSE get_function_calls(Head(outs)) \o RequestedCalls(Tail(outs))

\* C1: when every response of the client carries a function call, think ends
\* after exactly max_iterations model calls by returning the fixed
\* maximum-iterations message; it does not raise.
C1_TerminatesAtBound ==
    (Finished /\ AllResponsesCall)
        => /\ pc = "done"
           /\ Len(responses) = max_iterations
           /\ result = MaxIterationsText

\* C2: in the context of every model call, each function_call is immediately
\* followed by a function_call_output with its call_id, and each
\* function_call_output immediately follows a function_call with its call_id.
Paired(ctx) ==
    \A i \in 1..Len(ctx) :
        /\ ctx[i].type = "function_call"
              => /\ i < Len(ctx)
                 /\ ctx[i + 1].type = "function_call_output"
                 /\ ctx[i + 1].call_id = ctx[i].call_id
        /\ ctx[i].type = "function_call_output"
              => /\ i > 1
                 /\ ctx[i - 1].type = "function_call"
                 /\ ctx[i - 1].call_id = ctx[i].call_id

C2_CallsPairedAtModelCall == Paired(sent)

C2_Witness ==
    \E i \in 1..Len(sent) :
        sent[i].type = "function_call" /\ sent[i].call_id = "call_2"

\* C3: no single tool call makes think raise.
C3_NeverRaises == pc # "raised"

\* C5: a response without function calls is the last one: think is done, its
\* result is the text of the first output_text part of a message of that
\* response ("" when there is none), and no tool ran for it.
C5_Text(output) ==
    LET hasText(i) == /\ output[i].type = "message"
                      /\ \E j \in 1..Len(output[i].content) :
                             output[i].content[j].type = "output_text"
        msgs == {i \in 1..Len(output) : hasText(i)}
    IN  IF msgs = {} THEN ""
        ELSE LET i == CHOOSE m \in msgs : \A o \in msgs : m <= o
                 parts == {j \in 1..Len(output[i].content) :
                              output[i].content[j].type = "output_text"}
                 j == CHOOSE q \in parts : \A o \in parts : q <= o
             IN  output[i].content[j].text

C5_StopsAtFirstFinal ==
    \A i \in 1..Len(responses) :
        get_function_calls(responses[i]) = <<>>
            => /\ i = Len(responses)
               /\ pc = "done"
               /\ result = C5_Text(responses[i])
               /\ Len(thinking_trace) = Len(RequestedCalls(SubSeq(responses, 1, i - 1)))
               /\ pending = <<>>

C5_Witness ==
    /\ pc = "done"
    /\ Len(responses) = 2
    /\ LastResponseIsFinal
    /\ result = "4"

\* C6: k responses with function calls and then a final message give exactly
\* k + 1 model calls, every requested call run once and in order, every result
\* in the context of the next model call, and the final text as the result.
C6_CallsThenFinal ==
    /\ (pc = "raised" /\ AllResponsesCall) => Len(responses) >= max_iterations
    /\ (pc = "done" /\ LastResponseIsFinal)
          => /\ SelectSeq(sent, IsFunctionCall) = RequestedCalls(responses)
             /\ Paired(sent)
             /\ Len(thinking_trace) = Len(RequestedCalls(responses))
             /\ result = C5_Text(responses[Len(responses)])

\* The step the loop takes is the step it takes with no callback set.
SameAsWithoutCallbacks ==
    /\ ModelCall => ModelCallOutcome("none", "none")
    /\ ExecuteTool => ExecuteToolOutcome("none")
    /\ MaxIterationsReached => MaxIterationsOutcome("none")

\* C27: a callback that raises never ends think, and every step of the loop
\* (model call, tool execution, appended items, returned text) is the step
\* taken when no callback is set.
C27_CallbacksBestEffort ==
    /\ [](result # CallbackError)
    /\ [][SameAsWithoutCallbacks]_vars

C27_Witness ==
    /\ on_tool_call = "raises"
    /\ pc = "done"
    /\ iterLog # <<>>
    /\ toolLog # <<>>
    /\ respLog # <<>>
    /\ result = "4"

\* The arguments a function call parses to, or Unbound when they do not parse.
OwnArgs(fc) ==
    IF json_loads(fc.arguments).raised THEN Unbound
    ELSE json_loads(fc.arguments).value

\* C28: with on_tool_call set, every function call think has processed has
\* one callback invocation, in order, with the call's own name and its own
\* arguments: never the arguments of an earlier call.
C28_OwnArguments ==
    on_tool_call # "none"
        => /\ Len(toolLog) = Len(thinking_trace)
           /\ \A i \in 1..Len(toolLog) :
                 LET fc == RequestedCalls(responses)[i]
                 IN  /\ toolLog[i].name = fc.name
                     /\ toolLog[i].args = OwnArgs(fc)

\* C40: with on_response set, a think that returns has called it exactly
\* once, and the final text it was given is the string think returns, for a
\* final answer and at the iteration bound alike.
C40_ResponseCallbackMatches ==
    (pc = "done" /\ on_response # "none")
       => /\ Len(respLog) = 1
          /\ respLog[1][2] = result

\* The same for runs that end with a final answer.
FinalAnswerCallbackMatches ==
    (pc = "done" /\ on_response # "none" /\ result # MaxIterationsText)
       => /\ Len(respLog) = 1
          /\ respLog[1][2] = result

(***************************************************************************)
(* The registry on its own: register called by a client, and main.py's     *)
(* register_all_tools on a fresh agent.                                    *)
(***************************************************************************)
RegNames == {"web_search", "web_news", "get_feed"}
RegHandlers == {"h_first", "h_second"}

\* Agent.register_tool -> ToolRegistry.register: no check of the name.
Register ==
    /\ Len(tools) < MaxRegistrations
    /\ \E name \in RegNames, h \in RegHandlers :
         LET reg == register([tools |-> tools, handlers |-> handlers],
                             name, "registered by the client", h)
         IN  tools' = reg.tools /\ handlers' = reg.handlers
    /\ UNCHANGED <<botVars, agentVars, adapterVars, memoryVars, dreamVars>>

\* The (name, handler) pairs register_all_tools registers, in order; a handler
\* is named by the line of its register_tool call.
WebToolsFirst ==
    <<
        <<"web_search", "main.py:308">>, <<"web_news", "main.py:322">>
    >>

MoltbookTools ==
    <<
        <<"search_moltbook", "main.py:337">>,
        <<"create_post", "main.py:362">>, <<"get_post", "main.py:378">>,
        <<"delete_post", "main.py:389">>, <<"get_feed", "main.py:400">>,
        <<"get_global_posts", "main.py:414">>,
        <<"get_submolt_posts", "main.py:428">>,
        <<"create_comment", "main.py:457">>,
        <<"get_comments", "main.py:472">>, <<"upvote_post", "main.py:493">>,
        <<"downvote_post", "main.py:504">>,
        <<"upvote_comment", "main.py:515">>,
        <<"downvote_comment", "main.py:526">>, <<"read_doc", "main.py:554">>,
        <<"list_submolts", "main.py:566">>, <<"get_submolt", "main.py:573">>,
        <<"create_submolt", "main.py:584">>,
        <<"subscribe_submolt", "main.py:599">>,
        <<"unsubscribe_submolt", "main.py:610">>,
        <<"pin_post", "main.py:622">>, <<"unpin_post", "main.py:633">>,
        <<"get_profile", "main.py:645">>, <<"follow_molty", "main.py:656">>,
        <<"unfollow_molty", "main.py:667">>, <<"dm_check", "main.py:679">>,
        <<"dm_list_requests", "main.py:686">>,
        <<"dm_approve", "main.py:693">>, <<"dm_reject", "main.py:704">>,
        <<"dm_list_conversations", "main.py:718">>,
        <<"dm_read", "main.py:725">>, <<"dm_send", "main.py:741">>,
        <<"dm_start", "main.py:756">>, <<"get_my_profile", "main.py:772">>,
        <<"update_my_profile", "main.py:779">>,
        <<"check_claim_status", "main.py:790">>,
        <<"check_skill_version", "main.py:797">>
    >>

WebToolsSecond ==
    <<
        <<"web_search", "main.py:810">>, <<"web_news", "main.py:824">>,
        <<"scrape_page", "main.py:838">>,
        <<"research_topic", "main.py:851">>
    >>

RECURSIVE RegisterEach(_, _)
RegisterEach(reg, pairs) ==
    IF pairs = <<>> THEN reg
    ELSE RegisterEach(register(reg, Head(pairs)[1], "", Head(pairs)[2]),
                      Tail(pairs))

\* register_all_tools(agent, ..., config, memory=None): the web tools are
\* registered before and again after the Moltbook tools when a serper key is
\* configured.
register_all_tools(reg, serper_key) ==
    RegisterEach(reg,
        (IF serper_key THEN WebToolsFirst ELSE <<>>)
        \o MoltbookTools
        \o (IF serper_key THEN WebToolsSecond ELSE <<>>))

RegisterAllTools ==
    /\ tools = <<>>
    /\ \E serper_key \in BOOLEAN :
         LET reg == register_all_tools([tools |-> tools, handlers |-> handlers],
                                       serper_key)
         IN  tools' = reg.tools /\ handlers' = reg.handlers
    /\ UNCHANGED <<botVars, agentVars, adapterVars, memoryVars, dreamVars>>

\* An agent that is constructed and not thinking.
AgentIdle ==
    /\ system_prompt = ""
    /\ on_iteration = "none"
    /\ on_tool_call = "none"
    /\ on_response = "none"
    /\ max_iterations = DefaultMaxIterations
    /\ pc = "idle"
    /\ items = <<>>
    /\ iteration = 0
    /\ pending = <<>>
    /\ args = Unbound
    /\ thinking_trace = <<>>
    /\ result = None
    /\ sent = <<>>
    /\ responses = <<>>
    /\ executed = <<>>
    /\ iterLog = <<>>
    /\ toolLog = <<>>
    /\ respLog = <<>>

InitRegistry ==
    /\ DreamIdle
    /\ BotIdle
    /\ tools = EmptyRegistry.tools
    /\ handlers = EmptyRegistry.handlers
    /\ AgentIdle
    /\ AdapterIdle
    /\ MemoryIdle

NextRegistry == Register \/ RegisterAllTools

SpecRegistry == InitRegistry /\ [][NextRegistry]_vars

\* C9: after any sequence of register calls no two tools of the registry's
\* tool list share a name (a second registration of a name adds no tool).
C9_NamesUnique ==
    \A i, j \in 1..Len(tools) : tools[i].name = tools[j].name => i = j

(***************************************************************************)
(* Provider adapters (openresponses/adapters.py).                          *)
(***************************************************************************)
RECURSIVE Join(_, _)
Join(sep, texts) ==
    IF texts = <<>> THEN ""
    ELSE IF Len(texts) = 1 THEN texts[1]
    ELSE texts[1] \o sep \o Join(sep, Tail(texts))

\* The texts of the parts whose type is in types, in order.
RECURSIVE TextsOf(_, _)
TextsOf(parts, types) ==
    IF parts = <<>> THEN <<>>
    ELSE (IF Head(parts).type \in types THEN <<Head(parts).text>> ELSE <<>>)
         \o TextsOf(Tail(parts), types)

\* An item of a type the adapters do not translate.
ReasoningItem ==
    [type |-> "reasoning", id |-> None, role |-> None, content |-> <<>>,
     name |-> None, arguments |-> None, call_id |-> None, output |-> <<>>]

\* Chat-completions shapes: a tool call and a message.
ToolCall(id, name, arguments) ==
    [id |-> id, type |-> "function", name |-> name, arguments |-> arguments]

ChatMessage(role, content, tool_calls, tool_call_id) ==
    [role |-> role, content |-> content, tool_calls |-> tool_calls,
     tool_call_id |-> tool_call_id]

\* A reply without a "choices" key.
NoChoices == ChatMessage(None, None, <<>>, None)

\* uuid4-based identifiers the adapters make up; k tells them apart.
GenId(prefix, k) == prefix \o "uuid" \o IntToText(k)
IsGenerated(id) == \E k \in 0..9 : id \in {GenId("fc_", k), GenId("msg_", k)}

\* OllamaAdapter._items_to_messages.
RECURSIVE Ollama_items_to_messages(_)
Ollama_items_to_messages(its) ==
    IF its = <<>> THEN <<>>
    ELSE LET item == Head(its)
             msg ==
               CASE item.type = "message" ->
                      <<ChatMessage(item.role,
                          Join(" ", TextsOf(item.content, {"input_text", "output_text"})),
                          <<>>, None)>>
                 [] item.type = "function_call" ->
                      <<ChatMessage("assistant", None,
                          <<ToolCall(item.call_id, item.name, item.arguments)>>,
                          None)>>
                 [] item.type = "function_call_output" ->
                      <<ChatMessage("tool",
                          Join("", TextsOf(item.output, {"input_text"})),
                          <<>>, item.call_id)>>
                 [] OTHER -> <<>>
         IN  msg \o Ollama_items_to_messages(Tail(its))

\* OpenRouterAdapter._items_to_plaintext: one line per item, a line being the
\* pieces its f-string joins.
RECURSIVE OpenRouter_items_to_plaintext(_)
OpenRouter_items_to_plaintext(its) ==
    IF its = <<>> THEN <<>>
    ELSE LET item == Head(its)
             line ==
               CASE item.type = "message" ->
                      <<"[", item.role, "] ",
                        Join(" ", TextsOf(item.content,
                                          {"input_text", "output_text"}))>>
                 [] item.type = "function_call" ->
                      <<"[tool-call ", item.name, "] args=", item.arguments>>
                 [] item.type = "function_call_output" ->
                      <<"[tool-result ", item.call_id, "] ",
                        Join(" ", TextsOf(item.output, {"input_text"}))>>
                 [] OTHER -> <<"[reasoning]">>
         IN  <<line>> \o OpenRouter_items_to_plaintext(Tail(its))

\* tool_calls of a chat message -> function_call items; k numbers the ids.
RECURSIVE ToolCallsToItems(_, _)
ToolCallsToItems(tcs, k) ==
    IF tcs = <<>> THEN <<>>
    ELSE <<FunctionCallItem(GenId("fc_", k), Head(tcs).id, Head(tcs).name,
                            Head(tcs).arguments)>>
         \o ToolCallsToItems(Tail(tcs), k + 1)

\* OllamaAdapter._response_to_items on choices[0].message.
Ollama_response_to_items(message) ==
    IF message.tool_calls # <<>> THEN ToolCallsToItems(message.tool_calls, 0)
    ELSE IF message.content \notin {None, ""}
         THEN <<[assistant_message(message.content) EXCEPT !.id = GenId("msg_", 0)]>>
         ELSE <<>>

\* OpenRouterAdapter._response_to_items_chat on choices[0].message.
OpenRouter_response_to_items_chat(message) ==
    IF message.tool_calls # <<>> THEN ToolCallsToItems(message.tool_calls, 0)
    ELSE IF message.content \notin {None, ""}
         THEN <<[assistant_message(message.content) EXCEPT !.id = GenId("msg_", 0)]>>
         ELSE <<>>

\* dict.get(key, default) for a key that may be absent.
GetOr(value, default) == IF value = None THEN default ELSE value

\* o.get("content", "") of a provider function_call_output, whose content is
\* a string: held here as the text of the item's only part.
ProviderContent(o) == IF o.content = <<>> THEN "" ELSE o.content[1].text

\* The loop of _response_to_items_resp over the provider's output items.
RECURSIVE ResponseOutputToItems(_, _)
ResponseOutputToItems(output, k) ==
    IF output = <<>> THEN <<>>
    ELSE LET o == Head(output)
             item ==
               CASE o.type = "message" ->
                      <<[type |-> "message",
                         id |-> GetOr(o.id, GenId("msg_", k)),
                         role |-> GetOr(o.role, "assistant"),
                         content |-> <<OutputTextContent(
                             Join(" ", TextsOf(o.content, {"output_text", "text"})))>>,
                         name |-> None, arguments |-> None, call_id |-> None,
                         output |-> <<>>]>>
                 [] o.type = "function_call" ->
                      <<FunctionCallItem(GetOr(o.id, GenId("fc_", k)), o.id,
                                         o.name, o.arguments)>>
                 [] o.type = "function_call_output" ->
                      <<FunctionCallOutputItem(o.call_id,
                          <<InputTextContent(ProviderContent(o))>>)>>
                 [] OTHER -> <<>>
         IN  item \o ResponseOutputToItems(Tail(output), k + 1)

\* OpenRouterAdapter.create_response._response_to_items_resp.
OpenRouter_response_to_items_resp(resp_json) ==
    LET items_out == ResponseOutputToItems(resp_json.output, 0)
    IN  IF items_out = <<>> /\ resp_json.choices # NoChoices
        THEN OpenRouter_response_to_items_chat(resp_json.choices)
        ELSE items_out

\* The streaming loop of OllamaAdapter.create_response: the text it keeps.
RECURSIVE OllamaAccumulate(_, _)
OllamaAccumulate(lines, acc) ==
    IF lines = <<>> THEN acc
    ELSE LET line == Head(lines)
         IN  CASE line.kind = "done" -> acc
               [] line.kind = "data" ->
                    LET withText == IF line.content \notin {None, ""}
                                    THEN acc \o line.content ELSE acc
                        kept == IF line.tool_calls # <<>>
                                THEN line.tool_calls[1].arguments
                                ELSE withText
                    IN  OllamaAccumulate(Tail(lines), kept)
               [] OTHER -> OllamaAccumulate(Tail(lines), acc)

\* What the HTTP call may come to: a status (a 429 with Retry-After: 30), or
\* no answer at all.
HttpOk == [status |-> 200, transport |-> "ok", retry_after |-> NoRetryAfter]
HttpFailures ==
    {[status |-> 429, transport |-> "ok", retry_after |-> 30],
     [status |-> 401, transport |-> "ok", retry_after |-> NoRetryAfter],
     [status |-> 0, transport |-> "timeout", retry_after |-> NoRetryAfter]}

Reply(http, lines, output, choices) ==
    [status |-> http.status, transport |-> http.transport,
     retry_after |-> http.retry_after, lines |-> lines,
     output |-> output, choices |-> choices]

TC1 == ToolCall("call_1", "add", ArgsAdd)
TC2 == ToolCall("call_2", "echo", ArgsEmpty)

SseLine(kind, content, tool_calls) ==
    [kind |-> kind, content |-> content, tool_calls |-> tool_calls]

\* Lines of Ollama's event stream: text deltas, tool-call deltas, a chunk that
\* is not JSON, a chunk that is JSON without a choice in it
\* ({"choices": []}), the end marker and a blank line.
OllamaLines ==
    {SseLine("data", "Hel", <<>>), SseLine("data", "lo", <<>>),
     SseLine("data", None, <<TC1>>), SseLine("data", None, <<TC1, TC2>>),
     SseLine("malformed", None, <<>>), SseLine("misshapen", None, <<>>),
     SseLine("done", None, <<>>), SseLine("blank", None, <<>>)}

OllamaReplies ==
    {Reply(HttpOk, lines, <<>>, NoChoices) :
         lines \in {<<>>} \cup SeqsUpTo(OllamaLines, MaxReplyItems)}
    \cup {Reply(http, <<>>, <<>>, NoChoices) : http \in HttpFailures}

\* Output items of OpenRouter's /responses answer: a message, a function call
\* with the provider's own id, one without an id, and a reasoning item.
OpenRouterItems ==
    {[assistant_message("4") EXCEPT !.id = "msg_p1"],
     FunctionCallItem("fc_p1", "call_1", "add", ArgsAdd),
     FunctionCallItem(None, "call_2", "echo", ArgsEmpty),
     ReasoningItem}

\* A chat-completions answer, which create_response falls back to.
OpenRouterChoices ==
    {ChatMessage("assistant", None, <<TC1>>, None),
     ChatMessage("assistant", None, <<TC1, TC2>>, None),
     ChatMessage("assistant", "4", <<>>, None)}

\* Lines of OpenRouter's event stream: chunks whose output holds one message
\* with one text part, a chunk that is not JSON, a chunk that is JSON but
\* not an object with a list of output objects ({"output": ["Hel"]}), the
\* end marker.
OpenRouterLines ==
    {SseLine("data", "Hel", <<>>), SseLine("data", "", <<>>),
     SseLine("malformed", None, <<>>), SseLine("misshapen", None, <<>>),
     SseLine("done", None, <<>>)}

OpenRouterReplies ==
    {Reply(HttpOk, <<>>, output, NoChoices) :
         output \in {<<>>} \cup SeqsUpTo(OpenRouterItems, MaxReplyItems)}
    \cup {Reply(HttpOk, lines, <<>>, NoChoices) :
              lines \in SeqsUpTo(OpenRouterLines, MaxReplyItems)}
    \cup {Reply(HttpOk, <<>>, <<>>, ch) : ch \in OpenRouterChoices}
    \cup {Reply(http, <<>>, <<>>, NoChoices) : http \in HttpFailures}

\* Inputs of a request: a user message, then possibly a function call and its
\* output (of one part, or of two).
RequestInputs ==
    {<<user_message("hi")>>}
    \cup {<<user_message("hi"),
            FunctionCallItem(GenId("fc_", 0), c, "add", ArgsAdd),
            FunctionCallOutputItem(c, out)>> :
              c \in CallIds,
              out \in {<<InputTextContent("4")>>,
                       <<InputTextContent("4"), InputTextContent("ok")>>}}

NoResponse ==
    [kind |-> "none", output |-> <<>>, err |-> "", retry_after |-> NoRetryAfter]
ResponseResource(output) ==
    [kind |-> "response", output |-> output, err |-> "", retry_after |-> NoRetryAfter]
RaisedError(e) ==
    [kind |-> "raised", output |-> <<>>, err |-> e, retry_after |-> NoRetryAfter]

\* requests.post(...) and resp.raise_for_status(): neither adapter retries.
HttpError(r) ==
    IF r.transport # "ok" THEN "Timeout"
    ELSE IF r.status >= 400 THEN "HTTPError" ELSE ""

\* The try block around one chunk catches json.JSONDecodeError only: a chunk
\* that parses but has no choices[0] (IndexError) or whose output entries are
\* not objects (AttributeError) ends the loop with that exception.
chunk_error(kind) ==
    IF kind = "misshapen" THEN "IndexError or AttributeError" ELSE ""

RECURSIVE ChunkError(_)
ChunkError(lines) ==
    IF lines = <<>> THEN ""
    ELSE LET line == Head(lines)
         IN  IF line.kind = "done" THEN ""
             ELSE IF chunk_error(line.kind) # "" THEN chunk_error(line.kind)
             ELSE ChunkError(Tail(lines))

\* What a call that reads the stream raises, "" when it raises nothing.
CallError(r) ==
    IF HttpError(r) # "" THEN HttpError(r) ELSE ChunkError(r.lines)

\* OllamaAdapter.create_response.
OllamaCreateResponse ==
    /\ adPc = "ready"
    /\ adapter = "ollama"
    /\ payload' = Ollama_items_to_messages(request_input)
    /\ posts' = posts + 1
    /\ IF CallError(reply) # ""
       THEN adResponse' = RaisedError(CallError(reply)) /\ adPc' = "raised"
       ELSE /\ adResponse' = ResponseResource(
                   <<[assistant_message(OllamaAccumulate(reply.lines, ""))
                         EXCEPT !.id = GenId("msg_", 0)]>>)
            /\ adPc' = "returned"
    /\ UNCHANGED <<botVars, registryVars, agentVars, memoryVars, dreamVars, adapter, request_input,
                   reply, events>>

\* OpenRouterAdapter.create_response.
OpenRouterCreateResponse ==
    /\ adPc = "ready"
    /\ adapter = "openrouter"
    /\ reply.lines = <<>>
    /\ payload' = OpenRouter_items_to_plaintext(request_input)
    /\ posts' = posts + 1
    /\ IF HttpError(reply) # ""
       THEN adResponse' = RaisedError(HttpError(reply)) /\ adPc' = "raised"
       ELSE /\ adResponse' = ResponseResource(
                   OpenRouter_response_to_items_resp(reply))
            /\ adPc' = "returned"
    /\ UNCHANGED <<botVars, registryVars, agentVars, memoryVars, dreamVars, adapter, request_input,
                   reply, events>>

\* The events of a stream.
CreatedEvent(id) ==
    [type |-> "response.created", id |-> id, status |-> "in_progress",
     delta |-> None, text |-> None]
DeltaEvent(delta) ==
    [type |-> "response.output_text.delta", id |-> None, status |-> None,
     delta |-> delta, text |-> None]
CompletedEvent(id, text) ==
    [type |-> "response.completed", id |-> id, status |-> "completed",
     delta |-> None, text |-> text]

\* The loop over resp.iter_lines() of both create_response_stream methods: a
\* delta per chunk with text, up to the end marker.
RECURSIVE StreamDeltas(_)
StreamDeltas(lines) ==
    IF lines = <<>> THEN <<>>
    ELSE LET line == Head(lines)
         IN  CASE line.kind = "done" -> <<>>
               [] chunk_error(line.kind) # "" -> <<>>
               [] line.kind = "data" /\ line.content \notin {None, ""} ->
                    <<line.content>> \o StreamDeltas(Tail(lines))
               [] OTHER -> StreamDeltas(Tail(lines))

RECURSIVE Concat(_)
Concat(texts) ==
    IF texts = <<>> THEN "" ELSE Head(texts) \o Concat(Tail(texts))

\* What a consumer of the generator gets: response.created before the HTTP
\* call, then either the error of the call, or the deltas up to the error of
\* a chunk, or the deltas and response.completed.
StreamEvents(r) ==
    LET created == CreatedEvent(GenId("resp_", 0))
        deltas == StreamDeltas(r.lines)
    IN  IF HttpError(r) # "" THEN <<created>>
        ELSE IF ChunkError(r.lines) # ""
        THEN <<created>> \o [i \in 1..Len(deltas) |-> DeltaEvent(deltas[i])]
        ELSE <<created>>
             \o [i \in 1..Len(deltas) |-> DeltaEvent(deltas[i])]
             \o <<CompletedEvent(GenId("resp_", 0), Concat(deltas))>>

StreamReturns ==
    /\ posts' = posts + 1
    /\ events' = StreamEvents(reply)
    /\ IF CallError(reply) # ""
       THEN adResponse' = RaisedError(CallError(reply)) /\ adPc' = "raised"
       ELSE adResponse' = adResponse /\ adPc' = "streamed"
    /\ UNCHANGED <<botVars, registryVars, agentVars, memoryVars, dreamVars, adapter,
                   request_input, reply>>

\* OllamaAdapter.create_response_stream, consumed to its end.
OllamaCreateResponseStream ==
    /\ adPc = "ready"
    /\ adapter = "ollama"
    /\ payload' = Ollama_items_to_messages(request_input)
    /\ StreamReturns

\* OpenRouterAdapter.create_response_stream, consumed to its end.
OpenRouterCreateResponseStream ==
    /\ adPc = "ready"
    /\ adapter = "openrouter"
    /\ reply.output = <<>>
    /\ reply.choices = NoChoices
    /\ payload' = OpenRouter_items_to_plaintext(request_input)
    /\ StreamReturns

RegistryIdle ==
    /\ tools = EmptyRegistry.tools
    /\ handlers = EmptyRegistry.handlers

InitAdapter ==
    /\ DreamIdle
    /\ BotIdle
    /\ RegistryIdle
    /\ AgentIdle
    /\ MemoryIdle
    /\ adapter \in {"ollama", "openrouter"}
    /\ request_input \in RequestInputs
    /\ reply \in (IF adapter = "ollama" THEN OllamaReplies ELSE OpenRouterReplies)
    /\ payload = <<>>
    /\ adResponse = NoResponse
    /\ adPc = "ready"
    /\ posts = 0
    /\ events = <<>>

NextAdapter ==
    \/ OllamaCreateResponse \/ OpenRouterCreateResponse
    \/ OllamaCreateResponseStream \/ OpenRouterCreateResponseStream

SpecAdapter == InitAdapter /\ [][NextAdapter]_vars

(***************************************************************************)
(* Properties of the adapters, checked under SpecAdapter.                  *)
(***************************************************************************)
Range(f) == {f[i] : i \in DOMAIN f}

ProviderCall(call_id, name, arguments) ==
    [call_id |-> call_id, name |-> name, arguments |-> arguments]

RECURSIVE ChatCalls(_)
ChatCalls(tcs) ==
    IF tcs = <<>> THEN <<>>
    ELSE <<ProviderCall(Head(tcs).id, Head(tcs).name, Head(tcs).arguments)>>
         \o ChatCalls(Tail(tcs))

\* The tool calls of an event stream, up to its end marker.
RECURSIVE StreamCalls(_)
StreamCalls(lines) ==
    IF lines = <<>> \/ Head(lines).kind = "done" THEN <<>>
    ELSE ChatCalls(Head(lines).tool_calls) \o StreamCalls(Tail(lines))

RECURSIVE OutputCalls(_)
OutputCalls(output) ==
    IF output = <<>> THEN <<>>
    ELSE (IF Head(output).type = "function_call"
          THEN <<ProviderCall(Head(output).call_id, Head(output).name,
                              Head(output).arguments)>>
          ELSE <<>>) \o OutputCalls(Tail(output))

\* The tool calls the provider's reply carries, in order.
ProviderToolCalls ==
    IF adapter = "ollama" THEN StreamCalls(reply.lines)
    ELSE OutputCalls(reply.output) \o ChatCalls(reply.choices.tool_calls)

ReturnedCalls == get_function_calls(adResponse.output)

\* C4: a reply with tool calls is returned as one function_call item per tool
\* call, with the provider's name and arguments, by either adapter.
C4_ToolCallsBecomeItems ==
    (adPc = "returned" /\ ProviderToolCalls # <<>>)
        => /\ Len(ReturnedCalls) = Len(ProviderToolCalls)
           /\ \A i \in 1..Len(ReturnedCalls) :
                 /\ ReturnedCalls[i].name = ProviderToolCalls[i].name
                 /\ ReturnedCalls[i].arguments = ProviderToolCalls[i].arguments

\* C7: every provider tool call is returned as a function_call item with a
\* generated id and the provider's call_id, by either adapter.
C7_GeneratedIdAndCallId ==
    adPc = "returned"
        => /\ Len(ReturnedCalls) = Len(ProviderToolCalls)
           /\ \A i \in 1..Len(ReturnedCalls) :
                 /\ IsGenerated(ReturnedCalls[i].id)
                 /\ ReturnedCalls[i].call_id = ProviderToolCalls[i].call_id

\* What the payload entry at position i keeps of a function call or of an
\* output: a chat message for Ollama, a line of text for OpenRouter.
KeepsCall(entry, fc) ==
    IF adapter = "ollama"
    THEN /\ Len(entry.tool_calls) = 1
         /\ entry.tool_calls[1].id = fc.call_id
         /\ entry.tool_calls[1].name = fc.name
         /\ entry.tool_calls[1].arguments = fc.arguments
         /\ LET back == Ollama_response_to_items(entry)
            IN  /\ Len(back) = 1
                /\ back[1].call_id = fc.call_id
                /\ back[1].name = fc.name
                /\ back[1].arguments = fc.arguments
    ELSE {fc.call_id, fc.name, fc.arguments} \subseteq Range(entry)

KeepsOutput(entry, fco) ==
    IF adapter = "ollama"
    THEN /\ entry.tool_call_id = fco.call_id
         /\ Len(fco.output) = 1 => entry.content = fco.output[1].text
    ELSE /\ fco.call_id \in Range(entry)
         /\ Len(fco.output) = 1 => fco.output[1].text \in Range(entry)

\* C8: a function_call followed by its function_call_output goes into the
\* payload with the call_id of both and the name, arguments and text kept.
C8_RoundTrip ==
    adPc # "ready"
        => \A i \in 1..(Len(request_input) - 1) :
              (/\ request_input[i].type = "function_call"
               /\ request_input[i + 1].type = "function_call_output"
               /\ request_input[i + 1].call_id = request_input[i].call_id)
                  => /\ Len(payload) = Len(request_input)
                     /\ KeepsCall(payload[i], request_input[i])
                     /\ KeepsOutput(payload[i + 1], request_input[i + 1])

\* C24: a 429 with Retry-After: n gives one HTTP call and a returned
\* rate-limit signal that carries n.
C24_RateLimitSignal ==
    (adPc \in {"returned", "raised"} /\ events = <<>>
        /\ reply.transport = "ok" /\ reply.status = 429)
        => /\ posts = 1
           /\ adPc = "returned"
           /\ adResponse.kind = "rate_limited"
           /\ adResponse.retry_after = reply.retry_after

\* C25: a call that fails on every attempt with a timeout is made 3 times
\* before the error is raised.
C25_RetriesThenRaises ==
    (adPc = "raised" /\ events = <<>> /\ reply.transport # "ok")
        => posts = 3 /\ adResponse.err = "Timeout"

BadChunk(line) == line.kind \in {"malformed", "misshapen"}

WellFormed(lines) == SelectSeq(lines, LAMBDA line : ~BadChunk(line))

\* C33: a malformed chunk in the event stream is skipped: the call completes
\* normally (create_response returns a response, create_response_stream ends
\* with response.completed) and the text is what the stream without the bad
\* chunk gives.
C33_MalformedChunkSkipped ==
    (adPc # "ready" /\ HttpError(reply) = ""
        /\ \E i \in 1..Len(reply.lines) : BadChunk(reply.lines[i]))
        => /\ adPc \in {"returned", "streamed"}
           /\ adPc = "returned"
                 => adResponse.output[1].content[1].text
                        = OllamaAccumulate(WellFormed(reply.lines), "")
           /\ adPc = "streamed"
                 => /\ events[Len(events)].type = "response.completed"
                    /\ events[Len(events)].text
                           = Concat(StreamDeltas(WellFormed(reply.lines)))

\* C26: a stream is one response.created, then text deltas only, then one
\* response.completed with the id of the first event.
C26_StreamSequence ==
    events # <<>>
        => LET n == Len(events)
           IN  /\ n >= 2
               /\ events[1].type = "response.created"
               /\ events[n].type = "response.completed"
               /\ events[n].id = events[1].id
               /\ \A i \in 2..(n - 1) :
                     events[i].type = "response.output_text.delta"

(***************************************************************************)
(* Core memory blocks (memory.py).  A str is a sequence of characters.     *)
(***************************************************************************)
Chars == {"a", "\n"}
Strings(n) == {<<>>} \cup SeqsUpTo(Chars, n)

IsPrefix(p, str) == Len(p) <= Len(str) /\ SubSeq(str, 1, Len(p)) = p

\* `sub in str`.
Contains(str, sub) ==
    \E i \in 0..(Len(str) - Len(sub)) : SubSeq(str, i + 1, i + Len(sub)) = sub

\* str.count(sub): occurrences that do not overlap; len + 1 for the empty sub.
RECURSIVE Count(_, _)
Count(str, sub) ==
    IF sub = <<>> THEN Len(str) + 1
    ELSE IF Len(str) < Len(sub) THEN 0
    ELSE IF IsPrefix(sub, str)
         THEN 1 + Count(SubSeq(str, Len(sub) + 1, Len(str)), sub)
         ELSE Count(Tail(str), sub)

\* str.replace(old, new, 1): the leftmost occurrence.
RECURSIVE ReplaceFirst(_, _, _)
ReplaceFirst(str, old, new) ==
    IF IsPrefix(old, str) THEN new \o SubSeq(str, Len(old) + 1, Len(str))
    ELSE IF str = <<>> THEN str
    ELSE <<Head(str)>> \o ReplaceFirst(Tail(str), old, new)

\* str.split("\n").
RECURSIVE Split(_)
Split(str) ==
    IF ~Contains(str, <<"\n">>) THEN <<str>>
    ELSE LET i == CHOOSE k \in 1..Len(str) :
                      str[k] = "\n" /\ \A j \in 1..(k - 1) : str[j] # "\n"
         IN  <<SubSeq(str, 1, i - 1)>> \o Split(SubSeq(str, i + 1, Len(str)))

\* "\n".join(lines).
RECURSIVE JoinLinesOf(_)
JoinLinesOf(lines) ==
    IF lines = <<>> THEN <<>>
    ELSE IF Len(lines) = 1 THEN lines[1]
    ELSE lines[1] \o <<"\n">> \o JoinLinesOf(Tail(lines))

\* list.insert(i, x): a negative i counts from the end, and i is clamped.
ListInsert(lines, i, x) ==
    LET n == Len(lines)
        at == IF i < 0 THEN (IF n + i < 0 THEN 0 ELSE n + i)
              ELSE IF i > n THEN n ELSE i
    IN  SubSeq(lines, 1, at) \o <<x>> \o SubSeq(lines, at + 1, n)

MemError(op, reason, label, length) ==
    [status |-> "error", op |-> op, reason |-> reason, label |-> label,
     length |-> length]
MemSuccess(op, label, length) ==
    [status |-> "success", op |-> op, reason |-> "", label |-> label,
     length |-> length]

\* A call on the blocks bs: the blocks after it and what it returns.
Outcome(bs, res) == [blocks |-> bs, result |-> res]
Store(bs, label, value) == [bs EXCEPT ![label].value = value]

\* update_block without the limit check.
update_block_unchecked(bs, label, value) ==
    IF label \notin DOMAIN bs
    THEN Outcome(bs, MemError("update", "not_found", label, 0))
    ELSE Outcome(Store(bs, label, value),
                 MemSuccess("update", label, Len(value)))

\* update_block that cuts a value to the limit instead of refusing it.
update_block_truncates(bs, label, value) ==
    IF label \notin DOMAIN bs
    THEN Outcome(bs, MemError("update", "not_found", label, 0))
    ELSE LET kept == IF Len(value) > bs[label].limit
                     THEN SubSeq(value, 1, bs[label].limit) ELSE value
         IN  Outcome(Store(bs, label, kept),
                     MemSuccess("update", label, Len(kept)))

\* AgentMemory.update_block.
update_block(bs, label, value) ==
    IF label \notin DOMAIN bs
    THEN Outcome(bs, MemError("update", "not_found", label, 0))
    ELSE IF Len(value) > bs[label].limit
    THEN Outcome(bs, MemError("update", "too_long", label, Len(value)))
    ELSE Outcome(Store(bs, label, value),
                 MemSuccess("update", label, Len(value)))

\* replace_in_block without the test for several matches.
replace_in_block_first_match(bs, label, old_str, new_str) ==
    IF label \notin DOMAIN bs
    THEN Outcome(bs, MemError("replace", "not_found", label, 0))
    ELSE LET current == bs[label].value
             new_value == ReplaceFirst(current, old_str, new_str)
         IN  IF ~Contains(current, old_str)
             THEN Outcome(bs, MemError("replace", "no_match", label, 0))
             ELSE IF Len(new_value) > bs[label].limit
             THEN Outcome(bs, MemError("replace", "exceeds", label,
                                       Len(new_value)))
             ELSE Outcome(Store(bs, label, new_value),
                          MemSuccess("replace", label, Len(new_value)))

\* AgentMemory.replace_in_block.
replace_in_block(bs, label, old_str, new_str) ==
    IF label \notin DOMAIN bs
    THEN Outcome(bs, MemError("replace", "not_found", label, 0))
    ELSE LET current == bs[label].value
             new_value == ReplaceFirst(current, old_str, new_str)
         IN  IF ~Contains(current, old_str)
             THEN Outcome(bs, MemError("replace", "no_match", label, 0))
             ELSE IF Count(current, old_str) > 1
             THEN Outcome(bs, MemError("replace", "multiple", label, 0))
             ELSE IF Len(new_value) > bs[label].limit
             THEN Outcome(bs, MemError("replace", "exceeds", label,
                                       Len(new_value)))
             ELSE Outcome(Store(bs, label, new_value),
                          MemSuccess("replace", label, Len(new_value)))

\* AgentMemory.insert_in_block.
insert_in_block(bs, label, new_str, insert_line) ==
    IF label \notin DOMAIN bs
    THEN Outcome(bs, MemError("insert", "not_found", label, 0))
    ELSE LET current == bs[label].value
             lines == IF current # <<>> THEN Split(current) ELSE <<>>
             inserted ==
               IF insert_line = 0 THEN ListInsert(lines, 0, new_str)
               ELSE IF insert_line = 0 - 1 \/ insert_line >= Len(lines)
               THEN Append(lines, new_str)
               ELSE ListInsert(lines, insert_line, new_str)
             new_value == JoinLinesOf(inserted)
         IN  IF Len(new_value) > bs[label].limit
             THEN Outcome(bs, MemError("insert", "exceeds", label,
                                       Len(new_value)))
             ELSE Outcome(Store(bs, label, new_value),
                          MemSuccess("insert", label, Len(new_value)))

Labels == {"persona", "human", "nosuch"}
InsertLines == (0 - 2)..(MaxLen + 1)

\* A call returns; save() runs only on the paths that stored a value.
Returns(out) ==
    /\ blocks' = out.blocks
    /\ memResult' = out.result
    /\ disk' = IF out.result.status = "success" THEN out.blocks ELSE disk
    /\ UNCHANGED <<botVars, registryVars, agentVars, adapterVars, dreamVars, archival, stats,
                   archResult, embedder, buffer, added>>

UpdateBlock ==
    \E label \in Labels, value \in Strings(MaxLen) :
        Returns(update_block(blocks, label, value))

ReplaceInBlock ==
    \E label \in Labels, old_str \in Strings(MaxLen), new_str \in Strings(MaxLen) :
        Returns(replace_in_block(blocks, label, old_str, new_str))

InsertInBlock ==
    \E label \in Labels, new_str \in Strings(MaxLen), insert_line \in InsertLines :
        Returns(insert_in_block(blocks, label, new_str, insert_line))

WithinLimits(bs) == \A l \in DOMAIN bs : Len(bs[l].value) <= bs[l].limit

\* Any state of the blocks that respects the limits.
InitMemory ==
    /\ DreamIdle
    /\ BotIdle
    /\ RegistryIdle
    /\ AgentIdle
    /\ AdapterIdle
    /\ \E p \in Strings(PersonaLimit), h \in Strings(HumanLimit) :
         blocks = [DefaultBlocks EXCEPT !.persona.value = p, !.human.value = h]
    /\ disk = blocks
    /\ memResult = NoResult
    /\ archival = <<>>
    /\ stats = [memories_written |-> 0, memories_read |-> 0]
    /\ archResult = [op |-> "none", success |-> FALSE, memory_id |-> None,
                     method |-> None, found |-> <<>>, scores |-> <<>>]
    /\ embedder = "none"
    /\ buffer = <<>>
    /\ added = <<>>

NextMemory == UpdateBlock \/ ReplaceInBlock \/ InsertInBlock

SpecMemory == InitMemory /\ [][NextMemory]_vars

\* C10: every block stays within its limit after any sequence of
\* update_block, replace_in_block and insert_in_block calls; a call that
\* reports an error (a write over the limit among them) leaves every block as
\* it was, and a call that succeeds stored a value of the length it reports,
\* so nothing is cut to fit.
C10_RejectedNotTruncated ==
    /\ memResult'.status = "error" => blocks' = blocks
    /\ memResult'.status = "success"
          => Len(blocks'[memResult'.label].value) = memResult'.length

C10_WithinLimit ==
    []WithinLimits(blocks) /\ [][C10_RejectedNotTruncated]_vars

C10_Witness ==
    /\ memResult.status = "error"
    /\ memResult.reason \in {"too_long", "exceeds"}
    /\ Len(blocks.persona.value) = PersonaLimit

(***************************************************************************)
(* Properties of the single block methods, for every call that can be made *)
(* in a reachable state of the blocks.                                     *)
(***************************************************************************)
\* Every block other than label is as it was.
OthersKept(bs, after, label) ==
    /\ DOMAIN after = DOMAIN bs
    /\ \A other \in DOMAIN bs \ {label} : after[other] = bs[other]
    /\ after[label].limit = bs[label].limit

\* C11: update_block with a value longer than the limit fails and leaves
\* every block unchanged; with a value within the limit of an existing block
\* it succeeds and the stored value is the value given.
C11_UpdateBlock ==
    \A label \in DOMAIN blocks, value \in Strings(MaxLen) :
        LET out == update_block(blocks, label, value)
        IN  IF Len(value) > blocks[label].limit
            THEN out.result.status = "error" /\ out.blocks = blocks
            ELSE /\ out.result.status = "success"
                 /\ out.blocks[label].value = value
                 /\ OthersKept(blocks, out.blocks, label)

C11_Witness ==
    /\ memResult.op = "update"
    /\ memResult.status = "error"
    /\ memResult.reason = "too_long"
    /\ blocks.human.value # <<>>

\* The places where sub occurs in str (0-based), overlapping ones included.
Places(str, sub) ==
    {i \in 0..(Len(str) - Len(sub)) : SubSeq(str, i + 1, i + Len(sub)) = sub}

\* after is str with the occurrence of old at place i replaced by new.
SubstitutedAt(str, old, new, i, after) ==
    after = SubSeq(str, 1, i) \o new \o SubSeq(str, i + Len(old) + 1, Len(str))

\* What replace_in_block does when old_str occurs zero times or more than
\* once (counted as str.count counts, left to right without overlap): it
\* fails and changes no block.
ReplaceRefused(label, old_str, new_str) ==
    LET out == replace_in_block(blocks, label, old_str, new_str)
    IN  Count(blocks[label].value, old_str) # 1
            => out.result.status = "error" /\ out.blocks = blocks

ReplaceDone(label, old_str, new_str) ==
    LET out == replace_in_block(blocks, label, old_str, new_str)
        current == blocks[label].value
    IN  /\ out.result.status = "success"
        /\ \E i \in Places(current, old_str) :
               SubstitutedAt(current, old_str, new_str, i,
                             out.blocks[label].value)
        /\ OthersKept(blocks, out.blocks, label)

C13_InsertPosition ==
    \A label \in DOMAIN blocks, new_str \in Strings(MaxLen),
       insert_line \in InsertLines :
        LET current == blocks[label].value
            lines == IF current # <<>> THEN Split(current) ELSE <<>>
            expected ==
              IF insert_line = 0 THEN <<new_str>> \o lines
              ELSE IF insert_line < 0 \/ insert_line >= Len(lines)
              THEN lines \o <<new_str>>
              ELSE SubSeq(lines, 1, insert_line) \o <<new_str>>
                   \o SubSeq(lines, insert_line + 1, Len(lines))
            out == insert_in_block(blocks, label, new_str, insert_line)
        IN  out.result.status = "success"
                => out.blocks[label].value = JoinLinesOf(expected)

(***************************************************************************)
(* Archival memory (memory.py): remember and recall.  A text is a sequence *)
(* of characters; scores are kept in tenths so that importance/2 and       *)
(* importance/10 stay integers.                                            *)
(***************************************************************************)
CatsLikeNaps ==
    <<"c", "a", "t", "s", " ", "l", "i", "k", "e", " ", "n", "a", "p", "s">>
DogsBark == <<"d", "o", "g", "s", " ", "b", "a", "r", "k">>
BirdsSing == <<"b", "i", "r", "d", "s", " ", "s", "i", "n", "g">>
Fish == <<"f", "i", "s", "h">>
Pets == <<"p", "e", "t", "s">>
Naps == <<"n", "a", "p", "s">>
NapsPetsUpper == <<"N", "a", "p", "s", " ", " ", "P", "E", "T", "S">>
Nap == <<"n", "a", "p">>
Zebra == <<"z", "e", "b", "r", "a">>

\* str.lower() on the letters the texts use.
LowerChar(c) ==
    CASE c = "N" -> "n" [] c = "P" -> "p" [] c = "E" -> "e" [] c = "T" -> "t"
      [] c = "S" -> "s" [] OTHER -> c
Lower(str) == [i \in 1..Len(str) |-> LowerChar(str[i])]

\* str.split(): the words between runs of blanks.
RECURSIVE SplitWords(_)
SplitWords(str) ==
    IF str = <<>> THEN <<>>
    ELSE IF Head(str) = " " THEN SplitWords(Tail(str))
    ELSE LET stops == {k \in 1..Len(str) : str[k] = " "}
             n == IF stops = {} THEN Len(str)
                  ELSE (CHOOSE k \in stops : \A j \in stops : k <= j) - 1
         IN  <<SubSeq(str, 1, n)>> \o SplitWords(SubSeq(str, n + 1, Len(str)))

\* seq[:n] for n >= 0.
Take(seq, n) == SubSeq(seq, 1, IF n < Len(seq) THEN n ELSE Len(seq))

\* _hash: an md5 prefix, distinct for the texts of the model.
Hash(text) ==
    CASE text = CatsLikeNaps -> "h_cats" [] text = DogsBark -> "h_dogs"
      [] text = BirdsSing -> "h_birds" [] text = Fish -> "h_fish"
      [] OTHER -> "h_other"

ContentLimit == 1000
TagsLimit == 5
MinImportance == 1
MaxImportance == 10
DefaultImportance == 5
DefaultRecallLimit == 5
MAX_ARCHIVAL == MaxStore

\* The embedding provider's vector for a text.
Embedding(text) ==
    IF Contains(Lower(text), Nap) THEN <<1, 0>>
    ELSE IF Contains(Lower(text), <<"s">>) THEN <<0, 1>> ELSE <<0 - 1, 0>>

\* EmbeddingClient.get_embedding: None without a client, for a blank text and
\* on any failure of the provider; else the vector.
get_embedding(emb, text) ==
    IF emb = "none" \/ SplitWords(text) = <<>> THEN {None}
    ELSE {None, Embedding(text)}

\* EmbeddingClient.cosine_similarity on the unit vectors of the model.
cosine_similarity(v1, v2) ==
    IF v1 = None \/ v2 = None THEN 0 ELSE v1[1] * v2[1] + v1[2] * v2[2]

\* Python's order on tuples of integers.
RECURSIVE TupleLess(_, _)
TupleLess(a, b) ==
    IF a = <<>> THEN b # <<>>
    ELSE IF b = <<>> THEN FALSE
    ELSE IF Head(a) # Head(b) THEN Head(a) < Head(b)
    ELSE TupleLess(Tail(a), Tail(b))

\* list.sort(key=..., reverse=True) on records with a key: descending, and
\* stable (equal keys keep their order).
RECURSIVE InsertStable(_, _)
InsertStable(sorted, x) ==
    IF sorted = <<>> THEN <<x>>
    ELSE IF TupleLess(Head(sorted).key, x.key) THEN <<x>> \o sorted
    ELSE <<Head(sorted)>> \o InsertStable(Tail(sorted), x)

RECURSIVE SortInto(_, _)
SortInto(sorted, rest) ==
    IF rest = <<>> THEN sorted
    ELSE SortInto(InsertStable(sorted, Head(rest)), Tail(rest))

SortDescending(keyed) == SortInto(<<>>, keyed)

\* The entry remember builds; importance is min(max(importance, 1), 10).
ArchivalEntry_unclamped(content, tags, importance, vector) ==
    [id |-> Hash(content), hash |-> Hash(content),
     content |-> Take(content, ContentLimit),
     tags |-> Take(tags, TagsLimit),
     importance |-> importance,
     access_count |-> 0, embedding |-> vector]

ArchivalEntry(content, tags, importance, vector) ==
    [id |-> Hash(content), hash |-> Hash(content),
     content |-> Take(content, ContentLimit),
     tags |-> Take(tags, TagsLimit),
     importance |-> IF importance < MinImportance THEN MinImportance
                    ELSE IF importance > MaxImportance THEN MaxImportance
                    ELSE importance,
     access_count |-> 0, embedding |-> vector]

Rank(m) == <<m.importance, m.access_count>>

\* archival.sort(key=lambda m: (importance, access_count), reverse=True).
SortByRank_unsorted(entries) == entries

SortByRank(entries) ==
    LET keyed == [i \in 1..Len(entries) |-> [key |-> Rank(entries[i]),
                                             item |-> entries[i]]]
        sorted == SortDescending(keyed)
    IN  [i \in 1..Len(sorted) |-> sorted[i].item]

ArchResult(op, success, memory_id, method, found, scores) ==
    [op |-> op, success |-> success, memory_id |-> memory_id,
     method |-> method, found |-> found, scores |-> scores]

NoArchResult == ArchResult("none", FALSE, None, None, <<>>, <<>>)

ArchOutcome(arch, st, res) == [archival |-> arch, stats |-> st, result |-> res]

\* AgentMemory.remember; vector is what get_embedding gave.
remember(arch, st, content, tags, importance, vector) ==
    IF \E i \in 1..Len(arch) : arch[i].hash = Hash(content)
    THEN ArchOutcome(arch, st,
             ArchResult("remember", FALSE, None, None, <<>>, <<>>))
    ELSE LET inserted == <<ArchivalEntry(content, tags, importance, vector)>>
                             \o arch
             kept == IF Len(inserted) > MAX_ARCHIVAL
                     THEN Take(SortByRank(inserted), MAX_ARCHIVAL)
                     ELSE inserted
         IN  ArchOutcome(kept,
                 [st EXCEPT !.memories_written = @ + 1],
                 ArchResult("remember", TRUE, Hash(content), None, <<>>, <<>>))

\* The words of the query found in the content, and those found in a tag.
WordsInContent(words, m) == {w \in words : Contains(Lower(m.content), w)}
WordsInTags(words, m) ==
    {w \in words : \E t \in 1..Len(m.tags) : Contains(Lower(m.tags[t]), w)}

\* Lines 281-285, in tenths: 2 per word in the content, 3 per word in a tag,
\* importance / 2.
keyword_score_flat(words, m) == 5 * m.importance

keyword_score(words, m) ==
    20 * Cardinality(WordsInContent(words, m))
    + 30 * Cardinality(WordsInTags(words, m))
    + 5 * m.importance

\* Lines 261-264, in tenths: cosine * 10 + importance / 10.
vector_score(query_vec, m) ==
    (IF m.embedding # None
     THEN 100 * cosine_similarity(query_vec, m.embedding) ELSE 0)
    + m.importance

\* The entries whose score is above the threshold, as results in store
\* order; scores[i] is the score of arch[i].
RECURSIVE Scored(_, _, _)
Scored(arch, scores, threshold) ==
    IF arch = <<>> THEN <<>>
    ELSE (IF Head(scores) > threshold
          THEN <<[key |-> <<Head(scores)>>, item |-> Head(arch).id]>>
          ELSE <<>>) \o Scored(Tail(arch), Tail(scores), threshold)

\* _mark_accessed for one result: the first entry with its id.
MarkOne(arch, id) ==
    LET hits == {i \in 1..Len(arch) : arch[i].id = id}
    IN  IF hits = {} THEN arch
        ELSE LET i == CHOOSE k \in hits : \A j \in hits : k <= j
             IN  [arch EXCEPT ![i].access_count = @ + 1]

\* _mark_accessed that touches every entry of the store.
mark_accessed_all(arch, results) ==
    [i \in 1..Len(arch) |-> [arch[i] EXCEPT !.access_count = @ + 1]]

\* AgentMemory._mark_accessed.
RECURSIVE mark_accessed(_, _)
mark_accessed(arch, results) ==
    IF results = <<>> THEN arch
    ELSE mark_accessed(MarkOne(arch, Head(results).item), Tail(results))

\* Sort, cut to limit, mark, count the read, return: lines 268-273 and
\* 289-294.
Found(arch, st, results, limit, method) ==
    LET top == Take(SortDescending(results), limit)
    IN  ArchOutcome(mark_accessed(arch, top),
            [st EXCEPT !.memories_read = @ + 1],
            ArchResult("recall", TRUE, None, method,
                       [i \in 1..Len(top) |-> top[i].item],
                       [i \in 1..Len(top) |-> top[i].key[1]]))

\* AgentMemory.recall; query_vec is what get_embedding gave for the query.
recall(arch, st, emb, query, limit, query_vec) ==
    LET byVector == [i \in 1..Len(arch) |-> vector_score(query_vec, arch[i])]
        words == Range(SplitWords(Lower(query)))
        byKeyword == [i \in 1..Len(arch) |-> keyword_score(words, arch[i])]
        vectorResults == Scored(arch, byVector, 1)
    IN  IF emb # "none" /\ query_vec # None /\ vectorResults # <<>>
        THEN Found(arch, st, vectorResults, limit, "vector")
        ELSE Found(arch, st, Scored(arch, byKeyword, 0), limit, "keyword")

(***************************************************************************)
(* The archival store on its own.                                          *)
(***************************************************************************)
\* Arguments of remember: content, tags, importance.
RememberInputs ==
    {[content |-> CatsLikeNaps, tags |-> <<Pets>>, importance |-> DefaultImportance],
     [content |-> CatsLikeNaps, tags |-> <<>>, importance |-> 2],
     [content |-> DogsBark, tags |-> <<Pets>>, importance |-> 0],
     [content |-> BirdsSing, tags |-> <<>>, importance |-> 11],
     [content |-> Fish, tags |-> <<>>, importance |-> 1]}

Queries == {Naps, NapsPetsUpper, Zebra}
Limits == {0, 1, DefaultRecallLimit}

CallsMade == stats.memories_written + stats.memories_read

ArchReturns(out) ==
    /\ archival' = out.archival
    /\ stats' = out.stats
    /\ archResult' = out.result
    /\ UNCHANGED <<botVars, registryVars, agentVars, adapterVars, dreamVars, blocks, disk,
                   memResult, embedder, buffer, added>>

Remember ==
    /\ CallsMade < MaxCalls
    /\ \E inp \in RememberInputs :
         \E vector \in get_embedding(embedder, inp.content) :
            ArchReturns(remember(archival, stats, inp.content, inp.tags,
                                 inp.importance, vector))

Recall ==
    /\ CallsMade < MaxCalls
    /\ \E query \in Queries, limit \in Limits :
         \E query_vec \in get_embedding(embedder, query) :
            ArchReturns(recall(archival, stats, embedder, query, limit,
                               query_vec))

NoStats == [memories_written |-> 0, memories_read |-> 0]

InitArchival ==
    /\ DreamIdle
    /\ BotIdle
    /\ RegistryIdle
    /\ AgentIdle
    /\ AdapterIdle
    /\ blocks = DefaultBlocks
    /\ disk = DefaultBlocks
    /\ memResult = NoResult
    /\ archival = <<>>
    /\ stats = NoStats
    /\ archResult = NoArchResult
    /\ embedder \in {"none", "client"}
    /\ buffer = <<>>
    /\ added = <<>>

NextArchival == Remember \/ Recall

SpecArchival == InitArchival /\ [][NextArchival]_vars

(***************************************************************************)
(* Properties of remember and recall, for every call that can be made in a *)
(* reachable state of the store; checked under SpecArchival.               *)
(***************************************************************************)
WithHash(arch, h) == {i \in 1..Len(arch) : arch[i].hash = h}

\* C14: no two entries of the store share a hash, and remember called twice
\* with the same content leaves exactly one entry with it, the second call
\* failing and changing neither the store nor the counters.
C14_DedupIdempotent ==
    /\ \A h \in {archival[i].hash : i \in 1..Len(archival)} :
           Cardinality(WithHash(archival, h)) = 1
    /\ \A a \in RememberInputs, b \in RememberInputs :
         a.content = b.content =>
           \A va \in get_embedding(embedder, a.content), vb \in get_embedding(embedder, b.content) :
             LET first == remember(archival, stats, a.content, a.tags,
                                   a.importance, va)
                 second == remember(first.archival, first.stats, b.content,
                                    b.tags, b.importance, vb)
             IN  /\ Cardinality(WithHash(second.archival, Hash(a.content))) = 1
                 /\ ~second.result.success
                 /\ second.archival = first.archival
                 /\ second.stats = first.stats

\* m is lowest in (importance, access_count) order among the entries of arch.
LowestRanked(arch, m) ==
    \A i \in 1..Len(arch) : ~TupleLess(Rank(arch[i]), Rank(m))

\* C15: remember on a full store, with new content of an importance above
\* that of the lowest-ranked entry, evicts exactly one entry, one that is
\* lowest in (importance, access_count) order, and keeps the new entry.
C15_EvictsLowest ==
    \A inp \in RememberInputs : \A vector \in get_embedding(embedder, inp.content) :
        LET new == ArchivalEntry(inp.content, inp.tags, inp.importance, vector)
            out == remember(archival, stats, inp.content, inp.tags,
                            inp.importance, vector)
            gone == Range(archival) \ Range(out.archival)
        IN  (/\ Len(archival) = MAX_ARCHIVAL
             /\ WithHash(archival, new.hash) = {}
             /\ \E i \in 1..Len(archival) :
                    /\ LowestRanked(archival, archival[i])
                    /\ new.importance > archival[i].importance)
            => /\ out.result.success
               /\ Len(out.archival) = MAX_ARCHIVAL
               /\ new \in Range(out.archival)
               /\ Cardinality(gone) = 1
               /\ \A m \in gone : LowestRanked(archival, m)

C15_Witness ==
    /\ archResult.op = "remember"
    /\ archResult.success
    /\ stats.memories_written = MAX_ARCHIVAL + 1
    /\ Len(archival) = MAX_ARCHIVAL
    /\ WithHash(archival, archResult.memory_id) # {}
    /\ \E i \in 1..Len(archival) : archival[i].access_count > 0

\* C17: recall with a limit >= 0 returns at most limit entries in descending
\* score order; the access_count of each returned entry is one more than
\* before and every other entry is as it was.
C17_RecallMarksReturned ==
    \A query \in Queries, limit \in Limits :
        \A query_vec \in get_embedding(embedder, query) :
            LET out == recall(archival, stats, embedder, query, limit,
                              query_vec)
                found == out.result.found
                scores == out.result.scores
            IN  /\ Len(found) <= limit
                /\ \A i \in 1..(Len(scores) - 1) : scores[i] >= scores[i + 1]
                /\ \A i, j \in 1..Len(found) : found[i] = found[j] => i = j
                /\ Len(out.archival) = Len(archival)
                /\ \A i \in 1..Len(archival) :
                       out.archival[i] =
                         [archival[i] EXCEPT !.access_count =
                            @ + (IF archival[i].id \in Range(found)
                                 THEN 1 ELSE 0)]

C17_Witness ==
    /\ archResult.op = "recall"
    /\ Len(archResult.found) = 1
    /\ Len(archival) = 2
    /\ \E i, j \in 1..Len(archival) :
          /\ archival[i].id = archResult.found[1]
          /\ archival[i].access_count = 1
          /\ archival[j].access_count = 0

\* The keyword score as the spec gives it, in tenths.
C18_Score(query, m) ==
    LET words == Range(SplitWords(Lower(query)))
        inContent == {w \in words : Contains(Lower(m.content), w)}
        inTags == {w \in words :
                      \E t \in 1..Len(m.tags) : Contains(Lower(m.tags[t]), w)}
    IN  20 * Cardinality(inContent) + 30 * Cardinality(inTags)
        + 5 * m.importance

\* C18: without an embedding client, or when embedding the query fails,
\* recall answers by the keyword method: every returned entry carries the
\* keyword score, and with a limit that does not cut, every entry is
\* returned (importance / 2 makes every score positive).
C18_KeywordFallback ==
    \A query \in Queries, limit \in Limits :
        LET out == recall(archival, stats, embedder, query, limit, None)
            found == out.result.found
        IN  /\ out.result.method = "keyword"
            /\ \A k \in 1..Len(found) :
                 \E i \in 1..Len(archival) :
                    /\ archival[i].id = found[k]
                    /\ out.result.scores[k] = C18_Score(query, archival[i])
                    /\ out.result.scores[k] > 0
            /\ limit >= Len(archival)
                 => Range(found) = {archival[i].id : i \in 1..Len(archival)}

\* remember("cats like naps", tags=["pets"]) then recall("naps"): the entry
\* comes back by keyword with score 2 + 5/2.
C18_Witness ==
    /\ archResult.op = "recall"
    /\ archResult.method = "keyword"
    /\ Len(archival) = 1
    /\ archival[1].content = CatsLikeNaps
    /\ archival[1].tags = <<Pets>>
    /\ archResult.found = <<Hash(CatsLikeNaps)>>
    /\ archResult.scores = <<45>>

\* C38: when remember returns success, an entry with the returned memory_id
\* is in the store right after the call, also when the store was full and
\* the new entry ranks lowest in (importance, access_count).
C38_RememberedIsStored ==
    (archResult.op = "remember" /\ archResult.success)
       => WithHash(archival, archResult.memory_id) # {}

\* For every keyword recall that can be made: what it returns.
KeywordRecallReturns(query, limit) ==
    recall(archival, stats, embedder, query, limit, None).result

Min(a, b) == IF a < b THEN a ELSE b

\* C39: keyword recall discards only entries whose score is not above zero;
\* as importance is at least 1 every stored entry scores importance/2 or
\* more, so it returns exactly min(limit, store size) entries for any query,
\* also entries that match no word of the query.
C39_KeywordReturnsAll ==
    /\ \A i \in 1..Len(archival) : archival[i].importance >= MinImportance
    /\ \A query \in Queries, limit \in Limits :
          LET res == KeywordRecallReturns(query, limit)
          IN  /\ res.method = "keyword"
              /\ Len(res.found) = Min(limit, Len(archival))
              /\ \A k \in 1..Len(res.scores) : res.scores[k] > 0

\* recall("zebra") on a full store of which no entry has the word: all of
\* them come back, the entry of importance 1 with a score of 1/2.
C39_Witness ==
    /\ archResult.op = "recall"
    /\ archResult.method = "keyword"
    /\ Len(archival) = MAX_ARCHIVAL
    /\ Len(archResult.found) = MAX_ARCHIVAL
    /\ \E k \in 1..Len(archResult.scores) :
          archResult.scores[k] = 5 * MinImportance

(***************************************************************************)
(* The conversation buffer (memory.py).                                    *)
(***************************************************************************)
BufferContentLimit == 500
MAX_BUFFER == MaxStore + 1

\* seq[-n:] for n > 0.
LastN(seq, n) ==
    SubSeq(seq, (IF Len(seq) > n THEN Len(seq) - n ELSE 0) + 1, Len(seq))

BufferEntry(role, content, metadata) ==
    [role |-> role, content |-> Take(content, BufferContentLimit),
     metadata |-> IF metadata = None THEN "{}" ELSE metadata]

\* add_to_buffer that cuts from the new end.
add_to_buffer_keeps_oldest(buf, role, content, metadata) ==
    Take(Append(buf, BufferEntry(role, content, metadata)), MAX_BUFFER)

\* AgentMemory.add_to_buffer.
add_to_buffer(buf, role, content, metadata) ==
    LET appended == Append(buf, BufferEntry(role, content, metadata))
    IN  IF Len(appended) > MAX_BUFFER THEN LastN(appended, MAX_BUFFER)
        ELSE appended

BufferRoles == {"assistant", "user"}
BufferContents == {Naps, Fish}
BufferMetadata == {None, "{cycle}"}

\* added: the entries given to add_to_buffer since the buffer was last empty.
AddToBuffer ==
    /\ Len(added) < MaxAdds
    /\ \E role \in BufferRoles, content \in BufferContents,
          metadata \in BufferMetadata :
         /\ buffer' = add_to_buffer(buffer, role, content, metadata)
         /\ added' = Append(added, BufferEntry(role, content, metadata))
    /\ UNCHANGED <<botVars, registryVars, agentVars, adapterVars, dreamVars, blocks, disk,
                   memResult, archival, stats, archResult, embedder>>

\* AgentMemory.clear_buffer.
ClearBuffer ==
    /\ buffer' = <<>>
    /\ added' = <<>>
    /\ UNCHANGED <<botVars, registryVars, agentVars, adapterVars, dreamVars, blocks, disk,
                   memResult, archival, stats, archResult, embedder>>

InitBuffer ==
    /\ DreamIdle
    /\ BotIdle
    /\ RegistryIdle
    /\ AgentIdle
    /\ AdapterIdle
    /\ MemoryIdle

NextBuffer == AddToBuffer \/ ClearBuffer

SpecBuffer == InitBuffer /\ [][NextBuffer]_vars

\* C16: the buffer never holds more than MAX_BUFFER entries, and it is the
\* most recently added entries in the order they were added: what is dropped
\* at capacity is the oldest.
C16_BoundedFifo ==
    /\ Len(buffer) <= MAX_BUFFER
    /\ LET n == IF Len(added) < MAX_BUFFER THEN Len(added) ELSE MAX_BUFFER
       IN  /\ Len(buffer) = n
           /\ \A i \in 1..n : buffer[i] = added[Len(added) - n + i]

C16_Witness ==
    /\ Len(added) > MAX_BUFFER
    /\ Len(buffer) = MAX_BUFFER
    /\ buffer[1] # added[1]
    /\ buffer[MAX_BUFFER] = added[Len(added)]

(***************************************************************************)
(* The heartbeat loop of main() and the dream threads (main.py).           *)
(***************************************************************************)
DreamActionsNeeded == 5
DreamMinEntries == 3
DreamBufferLimit == 50
ReflectionBufferLimit == 30
ReflectionLimit == 2000
MAX_REFLECTIONS == MaxStore

Workers == 1..MaxWorkers

\* threading.Lock: locked(), acquire(blocking=False), release().
locked(l) == l

acquire_leaves_free(l) == [acquired |-> ~l, lock |-> l]

acquire(l) == [acquired |-> ~l, lock |-> TRUE]

release_keeps(l) == l

release(l) == FALSE

\* A thread of _run_dream with the locals of its run_dream_cycle call: the
\* buffer text it put in the prompt, the model's answer, whether it called the
\* model and saved a reflection, and how many entries its clear_buffer removed.
WorkerAt(at, outcome) ==
    [pc |-> at, outcome |-> outcome, seen |-> <<>>, appended |-> FALSE,
     response |-> None, called |-> FALSE, saved |-> FALSE,
     cleared |-> NotCleared]

Running == {w \in Workers : worker[w].pc # "idle"}

\* Line 1237: if actions_since < 5.
too_few_actions_never(n) == FALSE

too_few_actions(n) == n < DreamActionsNeeded

\* AgentMemory.get_buffer.
get_buffer(buf, limit) == LastN(buf, limit)

\* dream.py line 30: if len(buffer) < 3.
too_short_only_empty(buf) == Len(buf) < 1

too_short(buf) == Len(buf) < DreamMinEntries

\* AgentMemory.save_reflection without the cut to 50.
save_reflection_uncapped(refl, reflection) ==
    <<[content |-> Take(reflection, ReflectionLimit)]>> \o refl

\* AgentMemory.save_reflection (the reflections_done counter is left out).
save_reflection(refl, reflection) ==
    Take(<<[content |-> Take(reflection, ReflectionLimit)]>> \o refl,
         MAX_REFLECTIONS)

\* AgentMemory.clear_buffer: the new buffer and the count it returns.
clear_buffer(buf) == [buffer |-> <<>>, cleared |-> Len(buf)]

\* What agent.think returns to the heartbeat, and to the dream.
ThinkTexts == {Naps}
DreamTexts == {Naps}

\* dream.py lines 55-83 and 92-93: the try around the model call.  An answer
\* goes on to be saved; an error is logged and the function returns.
dream_try_unguarded(w, answer) ==
    IF answer.raised
    THEN [w EXCEPT !.pc = "finally", !.called = TRUE, !.outcome = "exception"]
    ELSE [w EXCEPT !.pc = "save", !.called = TRUE, !.response = answer.value]

dream_try(w, answer) ==
    IF answer.raised
    THEN [w EXCEPT !.pc = "finally", !.called = TRUE, !.outcome = "nightmare"]
    ELSE [w EXCEPT !.pc = "save", !.called = TRUE, !.response = answer.value]

\* What the model call of a dream comes to.
DreamAnswers ==
    {[raised |-> FALSE, value |-> t] : t \in DreamTexts}
    \cup {[raised |-> TRUE, value |-> None]}

\* Lines 1221-1230: the agent thinks; each post, comment, upvote or DM its
\* tools make goes through BotState._log_activity.
HbAct ==
    /\ hbPc = "think"
    /\ dream_actions_since < MaxActions
    /\ dream_actions_since' = dream_actions_since + 1
    /\ UNCHANGED <<botVars, registryVars, agentVars, adapterVars, memoryVars,
                   dream_lock, hbPc, worker, reflections>>

\* Line 1221: agent.think(prompt) returns.
HbFinishThink ==
    /\ hbPc = "think"
    /\ hbPc' = "buffer"
    /\ UNCHANGED <<botVars, registryVars, agentVars, adapterVars, memoryVars,
                   dream_lock, dream_actions_since, worker, reflections>>

\* Line 1226: memory.add_to_buffer("assistant", response[:500], {...}).
\* A run that has built its prompt and not yet finished; worker[w].appended
\* records that add_to_buffer was called since it read the buffer.
HasRead(run) == run.pc \in {"model", "save", "clear"}

HbAddToBuffer ==
    /\ hbPc = "buffer"
    /\ \E response \in ThinkTexts :
         buffer' = add_to_buffer(buffer, "assistant",
                                 Take(response, BufferContentLimit), "{cycle}")
    /\ worker' = [w \in Workers |->
                     [worker[w] EXCEPT !.appended = @ \/ HasRead(worker[w])]]
    /\ hbPc' = "check_lock"
    /\ UNCHANGED <<botVars, registryVars, agentVars, adapterVars, memoryRest,
                   dream_lock, dream_actions_since, reflections>>

\* Lines 1103-1125 and 1288-1295: a cycle that ends early (auth failed, not
\* claimed, an exception) sleeps without reaching maybe_start_dream().
HbSkipCycle ==
    /\ hbPc = "think"
    /\ hbPc' = "sleep"
    /\ UNCHANGED <<botVars, registryVars, agentVars, adapterVars, memoryVars,
                   dream_lock, dream_actions_since, worker, reflections>>

\* Lines 1234-1235.
HbCheckLock ==
    /\ hbPc = "check_lock"
    /\ hbPc' = IF locked(dream_lock) THEN "sleep" ELSE "check_actions"
    /\ UNCHANGED <<botVars, registryVars, agentVars, adapterVars, memoryVars,
                   dream_lock, dream_actions_since, worker, reflections>>

\* Lines 1236-1238.
HbCheckActions ==
    /\ hbPc = "check_actions"
    /\ hbPc' = IF too_few_actions(dream_actions_since) THEN "sleep"
               ELSE "acquire"
    /\ UNCHANGED <<botVars, registryVars, agentVars, adapterVars, memoryVars,
                   dream_lock, dream_actions_since, worker, reflections>>

\* Lines 1239-1243: the acquire does not wait.
HbAcquire ==
    /\ hbPc = "acquire"
    /\ LET got == acquire(dream_lock)
       IN  IF got.acquired
           THEN /\ dream_lock' = got.lock
                /\ dream_actions_since' = 0
                /\ hbPc' = "start"
           ELSE /\ hbPc' = "sleep"
                /\ UNCHANGED <<dream_lock, dream_actions_since>>
    /\ UNCHANGED <<botVars, registryVars, agentVars, adapterVars, memoryVars, worker,
                   reflections>>

\* Line 1256: threading.Thread(target=_run_dream, daemon=True).start().
HbStartThread ==
    /\ hbPc = "start"
    /\ \E w \in Workers :
         /\ worker[w].pc = "idle"
         /\ worker' = [worker EXCEPT ![w] = WorkerAt("started", "none")]
    /\ hbPc' = "sleep"
    /\ UNCHANGED <<botVars, registryVars, agentVars, adapterVars, memoryVars,
                   dream_lock, dream_actions_since, reflections>>

\* Line 1277: time.sleep, then the next cycle.
HbSleep ==
    /\ hbPc = "sleep"
    /\ hbPc' = "think"
    /\ UNCHANGED <<botVars, registryVars, agentVars, adapterVars, memoryVars,
                   dream_lock, dream_actions_since, worker, reflections>>

\* Lines 1248-1249: the prompt and the agent of the dream; either may raise.
WorkerSetup(w) ==
    /\ worker[w].pc = "started"
    /\ \/ worker' = [worker EXCEPT ![w].pc = "dreaming"]
       \/ worker' = [worker EXCEPT ![w].pc = "finally",
                                   ![w].outcome = "exception"]
    /\ UNCHANGED <<botVars, registryVars, agentVars, adapterVars, memoryVars,
                   dream_lock, dream_actions_since, hbPc, reflections>>

\* dream.py lines 29-51: return on a short buffer, else build the prompt from
\* get_reflection_context().
DreamCheckBuffer(w) ==
    /\ worker[w].pc = "dreaming"
    /\ IF too_short(get_buffer(buffer, DreamBufferLimit))
       THEN worker' = [worker EXCEPT ![w].pc = "finally",
                                     ![w].outcome = "noop"]
       ELSE worker' = [worker EXCEPT
                          ![w].pc = "model",
                          ![w].seen = LastN(buffer, ReflectionBufferLimit)]
    /\ UNCHANGED <<botVars, registryVars, agentVars, adapterVars, memoryVars,
                   dream_lock, dream_actions_since, hbPc, reflections>>

\* dream.py lines 55-83 and 92-93: the sleep client or agent.think answers,
\* or raises and the error is logged.
DreamModelCall(w) ==
    /\ worker[w].pc = "model"
    /\ \E answer \in DreamAnswers :
         worker' = [worker EXCEPT ![w] = dream_try(worker[w], answer)]
    /\ UNCHANGED <<botVars, registryVars, agentVars, adapterVars, memoryVars,
                   dream_lock, dream_actions_since, hbPc, reflections>>

\* dream.py line 86: memory.save_reflection(response).
DreamSave(w) ==
    /\ worker[w].pc = "save"
    /\ reflections' = save_reflection(reflections, worker[w].response)
    /\ worker' = [worker EXCEPT ![w].pc = "clear", ![w].saved = TRUE]
    /\ UNCHANGED <<botVars, registryVars, agentVars, adapterVars, memoryVars,
                   dream_lock, dream_actions_since, hbPc>>

\* dream.py lines 89-90: count = memory.clear_buffer().
DreamClear(w) ==
    /\ worker[w].pc = "clear"
    /\ LET out == clear_buffer(buffer)
       IN  /\ buffer' = out.buffer
           /\ worker' = [worker EXCEPT ![w].pc = "finally",
                                       ![w].outcome = "success",
                                       ![w].cleared = out.cleared]
    /\ UNCHANGED <<botVars, registryVars, agentVars, adapterVars, memoryRest,
                   dream_lock, dream_actions_since, hbPc, reflections>>

\* Lines 1253-1254: finally: dream_lock.release(); the thread ends.
WorkerRelease(w) ==
    /\ worker[w].pc = "finally"
    /\ dream_lock' = release(dream_lock)
    /\ worker' = [worker EXCEPT ![w] = WorkerAt("idle", worker[w].outcome)]
    /\ UNCHANGED <<botVars, registryVars, agentVars, adapterVars, memoryVars,
                   dream_actions_since, hbPc, reflections>>

HeartbeatStep ==
    \/ HbAct \/ HbFinishThink \/ HbAddToBuffer \/ HbSkipCycle \/ HbCheckLock
    \/ HbCheckActions \/ HbAcquire \/ HbStartThread \/ HbSleep

\* run_dream_cycle, step by step.
WorkerDream(w) ==
    DreamCheckBuffer(w) \/ DreamModelCall(w) \/ DreamSave(w) \/ DreamClear(w)

WorkerStep ==
    \E w \in Workers : WorkerSetup(w) \/ WorkerDream(w) \/ WorkerRelease(w)

InitDream ==
    /\ DreamIdle
    /\ BotIdle
    /\ RegistryIdle
    /\ AgentIdle
    /\ AdapterIdle
    /\ MemoryIdle

NextDream == HeartbeatStep \/ WorkerStep

SpecDream == InitDream /\ [][NextDream]_vars

\* The main thread goes on to start the thread it took the lock for, and a
\* started thread runs to its end (every model call of a dream has a timeout
\* and the agent loop is bounded).
SpecDreamFair ==
    SpecDream /\ WF_vars(HbStartThread) /\ WF_vars(WorkerStep)

\* A heartbeat step that finds the lock held goes to sleep, starting nothing.
SkipsWhenHeld ==
    (hbPc = "check_lock" /\ hbPc' # hbPc /\ dream_lock)
        => hbPc' = "sleep" /\ worker' = worker /\ dream_lock' = dream_lock

\* A thread is started only by the step that follows a successful acquire.
StartsAfterAcquire ==
    (\E w \in Workers : worker[w].pc = "idle" /\ worker'[w].pc # "idle")
        => hbPc = "start" /\ dream_lock /\ Running = {}

\* C19: at most one _run_dream thread exists at a time and it holds the
\* lock; a thread is started only after the acquire succeeded; a heartbeat
\* that finds the lock held skips to its sleep; and the heartbeat always has
\* a step to take, whatever the lock and the threads do.
C19_OneDreamAtATime ==
    /\ [](Cardinality(Running) <= 1)
    /\ [](Running # {} => dream_lock)
    /\ [](ENABLED HeartbeatStep)
    /\ [][SkipsWhenHeld /\ StartsAfterAcquire]_vars

C19_Witness ==
    /\ hbPc = "check_lock"
    /\ dream_lock
    /\ dream_actions_since >= DreamActionsNeeded
    /\ \E w \in Workers : worker[w].pc = "dreaming"

Consolidating(w) == worker[w].pc \in {"model", "save", "clear"}

\* C21: while a dream is between its read of the buffer and its clear, the
\* heartbeat makes no add_to_buffer call.
C21_NoMemoryRace ==
    [][HbAddToBuffer => \A w \in Workers : ~Consolidating(w)]_vars

\* C22: an error of the model call ends run_dream_cycle by its own handler:
\* the run returns with nothing saved and nothing cleared.
C22_ErrorLeavesMemory ==
    \A w \in Workers :
        (worker[w].pc = "finally" /\ worker[w].called
            /\ worker[w].response = None)
            => /\ worker[w].outcome = "nightmare"
               /\ ~worker[w].saved
               /\ worker[w].cleared = NotCleared

C22_Witness ==
    \E w \in Workers :
        /\ worker[w].pc = "finally"
        /\ worker[w].outcome = "nightmare"
        /\ Len(buffer) >= DreamMinEntries
        /\ reflections # <<>>

\* C23: a run that finds fewer than 3 entries in the buffer ends at once: no
\* model call, no reflection saved, the buffer not cleared; a run that goes
\* on has read at least 3 entries.
C23_ShortBufferNoop ==
    \A w \in Workers :
        /\ worker[w].outcome = "noop"
              => /\ ~worker[w].called
                 /\ ~worker[w].saved
                 /\ worker[w].cleared = NotCleared
        /\ (Consolidating(w) \/ worker[w].called)
              => Len(worker[w].seen) >= DreamMinEntries
        /\ (worker[w].pc = "finally" /\ ~worker[w].called
               /\ worker[w].outcome # "exception")
              => worker[w].outcome = "noop"

C23_Witness ==
    \E w \in Workers :
        /\ worker[w].pc = "finally"
        /\ worker[w].outcome = "noop"
        /\ Len(buffer) = DreamMinEntries - 1

\* The step of worker w from one place of its run to the next.
Moves(w, from, to) == worker[w].pc = from /\ worker'[w].pc = to

\* The save step puts one entry at the front and keeps the rest in order.
SavesOneAtFront ==
    \A w \in Workers :
        Moves(w, "save", "clear")
            => /\ reflections' # <<>>
               /\ Head(reflections').content = worker[w].response
               /\ Tail(reflections')
                     = Take(reflections, Len(reflections') - 1)
               /\ Len(reflections') \in {Len(reflections) + 1, MAX_REFLECTIONS}
               /\ buffer' = buffer

\* The clear step comes after the save of the same run and empties the buffer.
ClearsAfterSave ==
    /\ \A w \in Workers :
          Moves(w, "clear", "finally")
              => worker[w].saved /\ buffer' = <<>>
                 /\ worker'[w].outcome = "success"
    /\ (buffer # <<>> /\ buffer' = <<>>)
          => \E w \in Workers : Moves(w, "clear", "finally")
    /\ reflections' # reflections
          => \E w \in Workers : Moves(w, "save", "clear")

\* C29: a successful run saves its reflection first (one new entry at the
\* front of a list of at most MAX_REFLECTIONS entries) and clears the buffer
\* after that; the buffer is emptied only by a run that has saved.
C29_SaveThenClear ==
    /\ [](Len(reflections) <= MAX_REFLECTIONS)
    /\ [](\A w \in Workers :
             worker[w].outcome = "success" /\ worker[w].pc = "finally"
                 => worker[w].saved /\ worker[w].cleared # NotCleared)
    /\ [][SavesOneAtFront /\ ClearsAfterSave]_vars

C29_Witness ==
    /\ Len(reflections) = MAX_REFLECTIONS
    /\ buffer = <<>>
    /\ \E w \in Workers :
          /\ worker[w].pc = "finally"
          /\ worker[w].outcome = "success"
          /\ worker[w].cleared >= DreamMinEntries

\* The buffer grows at its end and is cut at its front, so a clear removes
\* only entries of the prompt when the buffer it empties is still the list
\* the prompt was built from.
ClearsWhatWasRead ==
    \A w \in Workers :
        Moves(w, "clear", "finally")
           => ~worker[w].appended /\ buffer = worker[w].seen

\* C37: every entry a consolidation's clear_buffer removes was among the
\* buffer entries embedded in that consolidation's prompt, whatever the
\* heartbeat's add_to_buffer calls do meanwhile.
C37_NothingClearedUnread == [][ClearsWhatWasRead]_vars

\* maybe_start_dream, step by step: the lock, then the count, then the start
\* with the count reset; a return leaves the count as it was.
DecidesByLockAndCount ==
    /\ (hbPc = "check_lock" /\ hbPc' # hbPc)
          => /\ hbPc' = (IF dream_lock THEN "sleep" ELSE "check_actions")
             /\ dream_actions_since' = dream_actions_since
    /\ (hbPc = "check_actions" /\ hbPc' # hbPc)
          => /\ hbPc' = (IF dream_actions_since >= DreamActionsNeeded
                         THEN "acquire" ELSE "sleep")
             /\ dream_actions_since' = dream_actions_since
    /\ (hbPc = "acquire" /\ hbPc' # hbPc)
          => /\ hbPc' = "start"
             /\ dream_lock'
             /\ dream_actions_since' = 0
    /\ (hbPc = "start" /\ hbPc' # hbPc)
          => \E w \in Workers : Moves(w, "idle", "started")
    /\ dream_actions_since' < dream_actions_since
          => hbPc = "acquire" /\ dream_actions_since' = 0

\* C30: a heartbeat that reaches maybe_start_dream starts a consolidation
\* exactly when the lock is free (no consolidation in progress) and at least
\* 5 actions were counted; the start resets the count to 0 and a return
\* without a start leaves it unchanged.
C30_StartsOnLockAndCount ==
    /\ [](hbPc \in {"check_actions", "acquire"}
             => ~dream_lock /\ Running = {})
    /\ [](hbPc = "acquire" => dream_actions_since >= DreamActionsNeeded)
    /\ [](hbPc = "start" => dream_lock /\ dream_actions_since = 0)
    /\ [][DecidesByLockAndCount]_vars

C30_Witness ==
    /\ hbPc = "start"
    /\ dream_lock
    /\ dream_actions_since = 0
    /\ reflections # <<>>

(***************************************************************************)
(* The Moltbook transport (moltbook.py): _get and _post.                   *)
(***************************************************************************)
MAX_RETRIES == 3

DefaultRetryAfter == 60

\* What the server may put in the Retry-After header: nothing, a number of
\* seconds, or an HTTP date.
RetryAfterHeaders == {None, "7", "Wed, 21 Oct 2026 07:28:00 GMT"}

\* What one requests.get or requests.post may come back with.
MbReplies ==
    {[transport |-> "ok", status |-> 200, text |-> t, retry_after |-> None] :
        t \in {"{\"success\": true}", "", "<html>"}}
    \cup {[transport |-> "ok", status |-> 429, text |-> "slow down",
           retry_after |-> h] : h \in RetryAfterHeaders}
    \cup {[transport |-> "ok", status |-> st, text |-> "no",
           retry_after |-> None] : st \in {401, 500}}
    \cup {[transport |-> tr, status |-> 0, text |-> "", retry_after |-> None] :
           tr \in {"timeout", "connection"}}

\* int(r.headers.get("Retry-After", 60)): "bad" stands for the ValueError
\* int raises on a string that is not a number.
RetryAfterSeconds(header) ==
    CASE header = None -> DefaultRetryAfter
      [] header = "7" -> 7
      [] OTHER -> NoRetryAfter

IntRaises(header) == header \notin {None, "7"}

MbReturned(error, retry_after, body) ==
    [kind |-> "returned", error |-> error, retry_after |-> retry_after,
     body |-> body]

MbRaised(error) ==
    [kind |-> "raised", error |-> error, retry_after |-> NoRetryAfter,
     body |-> None]

\* r.json() if r.text else the method's empty result.
BodyOf(method, text) ==
    IF text = "" THEN (IF method = "GET" THEN "{}" ELSE "{\"success\": true}")
    ELSE text

JsonRaises(text) == text = "<html>"

\* The try block of one loop iteration on a reply that arrived.
backoff_flat(n) == 1
backoff(n) == 2 ^ n

last_attempt(n) == n = MAX_RETRIES - 1

OnReply(method, r) ==
    CASE r.status = 429 ->
            IF IntRaises(r.retry_after) THEN MbRaised("ValueError")
            ELSE MbReturned("rate_limited", RetryAfterSeconds(r.retry_after),
                            None)
      [] r.status = 401 -> MbReturned("unauthorized", NoRetryAfter, None)
      [] r.status >= 400 -> MbRaised("HTTPError")
      [] JsonRaises(r.text) -> MbRaised("JSONDecodeError")
      [] OTHER -> MbReturned(None, NoRetryAfter, BodyOf(method, r.text))

\* A caller enters _get or _post.
MbCall(method) ==
    /\ mbPc = "ready"
    /\ mbMethod' = method
    /\ mbPc' = "loop"
    /\ attempt' = 0
    /\ mbLog' = <<>>
    /\ slept' = <<>>
    /\ mbResult' = NoMbResult
    /\ UNCHANGED <<registryVars, agentVars, adapterVars, memoryVars,
                   dreamVars, stateVars>>

\* One iteration of `for attempt in range(MAX_RETRIES)`: the request, then a
\* return, a raise, or the sleep before the next iteration.  The `return {}`
\* after the loop is not reachable: the last iteration returns or raises.
MbAttempt(r) ==
    /\ mbPc = "loop"
    /\ attempt < MAX_RETRIES
    /\ mbLog' = Append(mbLog, r)
    /\ IF r.transport = "ok"
       THEN /\ mbResult' = OnReply(mbMethod, r)
            /\ mbPc' = "done"
            /\ UNCHANGED <<attempt, slept>>
       ELSE IF last_attempt(attempt)
       THEN /\ mbResult' = MbRaised(r.transport)
            /\ mbPc' = "done"
            /\ UNCHANGED <<attempt, slept>>
       ELSE /\ slept' = Append(slept, backoff(attempt))
            /\ attempt' = attempt + 1
            /\ UNCHANGED <<mbPc, mbResult>>
    /\ UNCHANGED <<mbMethod, registryVars, agentVars, adapterVars, memoryVars,
                   dreamVars, stateVars>>

\* The caller has the result; the next call may start.
MbDone ==
    /\ mbPc = "done"
    /\ mbPc' = "ready"
    /\ UNCHANGED <<mbMethod, attempt, mbLog, slept, mbResult, registryVars,
                   agentVars, adapterVars, memoryVars, dreamVars, stateVars>>

InitMoltbook ==
    /\ RegistryIdle
    /\ AgentIdle
    /\ AdapterIdle
    /\ MemoryIdle
    /\ DreamIdle
    /\ BotIdle

NextMoltbook ==
    \/ \E method \in {"GET", "POST"} : MbCall(method)
    \/ \E r \in MbReplies : MbAttempt(r)
    \/ MbDone

SpecMoltbook == InitMoltbook /\ [][NextMoltbook]_vars

(***************************************************************************)
(* Properties of _get and _post, checked under SpecMoltbook.               *)
(***************************************************************************)
TransportFailure(r) == r.transport \in {"timeout", "connection"}

LastReply == mbLog[Len(mbLog)]

\* C31: _get and _post make at most MAX_RETRIES = 3 HTTP attempts; a timeout
\* or connection error on attempt 1 or 2 is followed by a sleep of 1 s, then
\* 2 s, and a retry; on the third attempt it is re-raised to the caller.  The
\* loop is left after at most three iterations, each of which makes one
\* attempt.
C31_BoundedRetries ==
    /\ Len(mbLog) <= 3
    /\ mbPc = "loop"
          => /\ Len(mbLog) = attempt
             /\ attempt < 3
             /\ \A i \in 1..Len(mbLog) : TransportFailure(mbLog[i])
             /\ slept = SubSeq(<<1, 2>>, 1, attempt)
    /\ (mbPc = "done" /\ TransportFailure(LastReply))
          => /\ Len(mbLog) = 3
             /\ slept = <<1, 2>>
             /\ mbResult.kind = "raised"
             /\ mbResult.error = LastReply.transport

C31_Witness ==
    /\ mbPc = "done"
    /\ mbMethod = "POST"
    /\ slept = <<1, 2>>
    /\ mbResult.kind = "raised"
    /\ mbResult.error = "timeout"
    /\ mbLog[1].transport = "connection"

\* C32: an HTTP 429 or 401 answer ends the call at once, on whichever
\* attempt it arrives, with a returned error result and no exception:
\* rate_limited with the Retry-After header's value (60 without the header),
\* or unauthorized.
C32_NoRetryOn4xx ==
    (mbPc = "done" /\ LastReply.status \in {429, 401})
       => /\ mbResult.kind = "returned"
          /\ LastReply.status = 401 => mbResult.error = "unauthorized"
          /\ LastReply.status = 429
                => /\ mbResult.error = "rate_limited"
                   /\ mbResult.retry_after >= 0

(***************************************************************************)
(* BotState (state.py) and the tool handlers of register_all_tools that    *)
(* write to Moltbook (main.py).  Time is in whole seconds, as _now_iso     *)
(* records it.  A timestamp is kept as the time elapsed since it, which is *)
(* all the cooldown checks read, and stops growing at its cooldown.  The   *)
(* fields no handler reads (activity_log, the counters) are left out.      *)
(***************************************************************************)
POST_COOLDOWN_SEC == 1800
COMMENT_COOLDOWN_SEC == 20
DM_COOLDOWN_SEC == 10

MaxOurPosts == 2        \* entries mark_post keeps in our_post_ids (50)
MaxPosts == 3           \* posts the bot creates

\* How much time may pass between two handler calls.
Ticks == {10, 900}

\* A post of another agent; the bot's own posts are numbered from 1.
OthersPost == 0

\* BotState.can_post and can_comment: `if not last: return True`, then
\* `time.time() - last >= cooldown`.
cooled_down(elapsed, cooldown) == elapsed = Never \/ elapsed >= cooldown

can_post == cooled_down(since_post, POST_COOLDOWN_SEC)
can_comment == cooled_down(since_comment, COMMENT_COOLDOWN_SEC)

\* BotState.is_our_post.
is_our_post(post_id) == \E i \in 1..Len(our_post_ids) : our_post_ids[i] = post_id

\* BotState.mark_post.
mark_post(post_id) ==
    /\ since_post' = 0
    /\ our_post_ids' = LastN(Append(our_post_ids, post_id), MaxOurPosts)
    /\ recorded' = recorded \cup {post_id}

Elapse(elapsed, d, cooldown) ==
    IF elapsed = Never THEN Never
    ELSE IF elapsed + d >= cooldown THEN cooldown ELSE elapsed + d

\* Time passes.
Tick(d) ==
    /\ since_post' = Elapse(since_post, d, POST_COOLDOWN_SEC)
    /\ since_comment' = Elapse(since_comment, d, COMMENT_COOLDOWN_SEC)
    /\ since_dm' = Elapse(since_dm, d, DM_COOLDOWN_SEC)
    /\ <<since_post', since_comment', since_dm'>>
          # <<since_post, since_comment, since_dm>>
    /\ UNCHANGED <<our_post_ids, recorded, lastCall, moltbookVars,
                   registryVars, agentVars, adapterVars, memoryVars,
                   dreamVars>>

\* create_post_safe.  The API answers with the new post, or with no id in
\* the result (an error result of _post).
CreatePost(answer) ==
    /\ Cardinality(recorded) < MaxPosts
    /\ IF ~can_post
       THEN /\ lastCall' = ToolCallRecord("create_post", NoPost, FALSE,
                                          "Post cooldown active.", since_post)
            /\ UNCHANGED <<since_post, our_post_ids, recorded>>
       ELSE /\ lastCall' = ToolCallRecord("create_post", NoPost, TRUE, None,
                                          since_post)
            /\ IF answer = "created"
               THEN mark_post(Cardinality(recorded) + 1)
               ELSE UNCHANGED <<since_post, our_post_ids, recorded>>
    /\ UNCHANGED <<since_comment, since_dm, moltbookVars, registryVars,
                   agentVars, adapterVars, memoryVars, dreamVars>>

\* create_comment_safe.  can_comment_today is an input: the daily count is
\* under 50 or it is not.
CreateComment(post_id, today, answer) ==
    /\ IF is_our_post(post_id)
       THEN /\ lastCall' = ToolCallRecord("create_comment", post_id, FALSE,
                               "Cannot comment on your own post!",
                               since_comment)
            /\ UNCHANGED since_comment
       ELSE IF ~can_comment
       THEN /\ lastCall' = ToolCallRecord("create_comment", post_id, FALSE,
                               "Comment cooldown.", since_comment)
            /\ UNCHANGED since_comment
       ELSE IF ~today
       THEN /\ lastCall' = ToolCallRecord("create_comment", post_id, FALSE,
                               "Daily comment limit reached (50 per day).",
                               since_comment)
            /\ UNCHANGED since_comment
       ELSE /\ lastCall' = ToolCallRecord("create_comment", post_id, TRUE,
                                          None, since_comment)
            /\ since_comment' = (IF answer = "created" THEN 0
                                 ELSE since_comment)
    /\ UNCHANGED <<since_post, since_dm, our_post_ids, recorded,
                   moltbookVars, registryVars, agentVars, adapterVars,
                   memoryVars, dreamVars>>

\* upvote_post_safe.
UpvotePost(post_id) ==
    /\ lastCall' = (IF is_our_post(post_id)
                    THEN ToolCallRecord("upvote_post", post_id, FALSE,
                                        "Cannot upvote your own post!", Never)
                    ELSE ToolCallRecord("upvote_post", post_id, TRUE, None,
                                        Never))
    /\ UNCHANGED <<since_post, since_comment, since_dm, our_post_ids,
                   recorded, moltbookVars, registryVars, agentVars,
                   adapterVars, memoryVars, dreamVars>>

\* dm_send_safe: moltbook.dm_send, then state.mark_dm_replied unless the
\* call raised.
DmSend(answer) ==
    /\ lastCall' = ToolCallRecord("dm_send", NoPost, TRUE, None, since_dm)
    /\ since_dm' = (IF answer = "raised" THEN since_dm ELSE 0)
    /\ UNCHANGED <<since_post, since_comment, our_post_ids, recorded,
                   moltbookVars, registryVars, agentVars, adapterVars,
                   memoryVars, dreamVars>>

\* The handlers that are the moltbook function itself.
DirectTools == {"downvote_post", "delete_post"}

DirectTool(tool, post_id) ==
    /\ lastCall' = ToolCallRecord(tool, post_id, TRUE, None, Never)
    /\ UNCHANGED <<since_post, since_comment, since_dm, our_post_ids,
                   recorded, moltbookVars, registryVars, agentVars,
                   adapterVars, memoryVars, dreamVars>>

\* The posts a handler can be aimed at: another agent's, or one of the bot's.
Posts == {OthersPost} \cup recorded

ApiAnswers == {"created", "error"}

InitTools ==
    /\ RegistryIdle
    /\ AgentIdle
    /\ AdapterIdle
    /\ MemoryIdle
    /\ DreamIdle
    /\ BotIdle

NextTools ==
    \/ \E d \in Ticks : Tick(d)
    \/ \E answer \in ApiAnswers : CreatePost(answer)
    \/ \E post_id \in Posts, today \in BOOLEAN, answer \in ApiAnswers :
          CreateComment(post_id, today, answer)
    \/ \E post_id \in Posts : UpvotePost(post_id)
    \/ \E answer \in {"sent", "raised"} : DmSend(answer)
    \/ \E tool \in DirectTools, post_id \in Posts : DirectTool(tool, post_id)

SpecTools == InitTools /\ [][NextTools]_vars

(***************************************************************************)
(* Properties of the tool handlers, checked under SpecTools.               *)
(***************************************************************************)
\* The cooldown BotState declares for a tool, 0 for a tool without one.
CooldownOf(tool) ==
    CASE tool = "create_post" -> POST_COOLDOWN_SEC
      [] tool = "create_comment" -> COMMENT_COOLDOWN_SEC
      [] tool = "dm_send" -> DM_COOLDOWN_SEC
      [] OTHER -> 0

\* C34: a handler that writes to Moltbook reaches the API only when the
\* cooldown of its action has passed: create_post not less than 1800 s after
\* the last recorded post, create_comment not less than 20 s after the last
\* recorded comment, dm_send not less than 10 s after the last recorded
\* message.
C34_CooldownBeforeApi ==
    lastCall.api
       => lastCall.elapsed = Never
             \/ lastCall.elapsed >= CooldownOf(lastCall.tool)

\* The cooldowns of posts and comments alone.
PostAndCommentCooldown ==
    (lastCall.api /\ lastCall.tool \in {"create_post", "create_comment"})
       => lastCall.elapsed = Never
             \/ lastCall.elapsed >= CooldownOf(lastCall.tool)

\* C35: create_comment and upvote_post never reach the API for a post id
\* that mark_post has recorded.
C35_NeverOwnPost ==
    (lastCall.api /\ lastCall.tool \in {"create_comment", "upvote_post"})
       => lastCall.target \notin recorded

\* The same for the posts our_post_ids still holds.
NeverKeptPost ==
    (lastCall.api /\ lastCall.tool \in {"create_comment", "upvote_post"})
       => ~is_our_post(lastCall.target)

(***************************************************************************)
(* The archival store with forget (memory.py).                             *)
(***************************************************************************)
\* AgentMemory.forget: every entry with the id goes; success if one went.
forget_clears(arch, st, memory_id) ==
    ArchOutcome(<<>>, st,
        ArchResult("forget", arch # <<>>, memory_id, None, <<>>, <<>>))

forget(arch, st, memory_id) ==
    LET kept == SelectSeq(arch, LAMBDA m : m.id # memory_id)
    IN  ArchOutcome(kept, st,
            ArchResult("forget", Len(arch) > Len(kept), memory_id, None,
                       <<>>, <<>>))

\* The ids forget is called with: those of the model's texts, stored or not.
MemoryIds == {Hash(inp.content) : inp \in RememberInputs} \cup {Hash(Zebra)}

Forget ==
    \E memory_id \in MemoryIds :
        ArchReturns(forget(archival, stats, memory_id))

NextStore == Remember \/ Recall \/ Forget

SpecStore == InitArchival /\ [][NextStore]_vars

(***************************************************************************)
(* Properties of the store, checked under SpecStore.                       *)
(***************************************************************************)
StoredIds(arch) == {arch[i].id : i \in 1..Len(arch)}

\* An entry that leaves the store leaves in a remember that found the store
\* over MAX_ARCHIVAL after its insert, or in a forget called with its id.
LeavesByEvictionOrForget ==
    \A id \in StoredIds(archival) \ StoredIds(archival') :
        \/ /\ archResult'.op = "remember"
           /\ archResult'.success
           /\ Len(archival) + 1 > MAX_ARCHIVAL
        \/ /\ archResult'.op = "forget"
           /\ archResult'.memory_id = id

\* C36: after any sequence of remember, recall and forget calls the store
\* holds at most MAX_ARCHIVAL entries, and an entry leaves it only by the
\* eviction of a remember that found it over capacity or by forget with its
\* id; recall removes nothing.
C36_BoundedStore ==
    /\ [](Len(archival) <= MAX_ARCHIVAL)
    /\ [][LeavesByEvictionOrForget]_vars

C36_Witness ==
    /\ archResult.op = "forget"
    /\ archResult.success
    /\ stats.memories_written > MAX_ARCHIVAL
    /\ stats.memories_read > 0
    /\ Len(archival) = MAX_ARCHIVAL - 1

====
